---- MODULE Spec2Model ----
(***************************************************************************)
(* Model of a107 (trevisanj/a107): the ASCII chart renderer of             *)
(* src/a107/asciichart.py, asciichart() and plot() (specification Spec),   *)
(* and rename_to_temp of fileio.py (SpecRename), the shared logger of      *)
(* loggingaux.py (SpecLogger), menu of textinterface.py (SpecMenu),        *)
(* AAConfigObj of config.py (SpecConfig) and FileSQLite.create_database    *)
(* of filesqlite.py (SpecSqlite).  Each specification moves the variables  *)
(* of its own module and leaves those of the others at rest.               *)
(*                                                                         *)
(* Numbers.  Python floats are modelled as exact rationals [n, d] (d > 0); *)
(* a sample is such a rational or NaN.  The inputs are drawn from values   *)
(* whose float arithmetic in plot() is exact (halves, small integers), so  *)
(* floor, ceil and round agree with the interpreter's.                     *)
(*                                                                         *)
(* Text.  A str is a sequence of one-character strings.  The box-drawing   *)
(* glyphs are written with ASCII stand-ins (see default_symbols); a colour *)
(* escape sequence is one element.                                         *)
(***************************************************************************)
EXTENDS Integers, Sequences, FiniteSets, TLC

VARIABLES
    series,     \* the `series`/`sequences` argument: [nested, data], see Items
    cfg,        \* the `cfg` argument: a function from option names (a dict)
    maxlines,   \* asciichart's `maxlines` argument
    legend,     \* asciichart's `legend` argument
    indent,     \* asciichart's `indent` argument
    pc,         \* "ready", "plot" (plot returned/raised), "asciichart"
    ret,        \* outcome of the call: [kind, text] or [kind, exc, msg]
    \* fileio.py: rename_to_temp
    fs,         \* the names of the files that exist
    _rename_to_temp_lock,   \* 0 (free) or the thread that holds the Lock
    th,         \* per thread: [pc, filename, new_name, exc]
    returned,   \* the calls that returned, in order: [old, new]
    ncalls,     \* calls of rename_to_temp started so far
    \* loggingaux.py and the flags of a107/__init__.py
    _python_logger,     \* 0 (None) or the logger, an index of loggers
    _fmtr,              \* FALSE (None) or TRUE (a Formatter)
    flag_log_console,   \* a107.flag_log_console
    flag_log_file,      \* a107.flag_log_file
    loggers,    \* the Logger objects created so far: [name, console, file]
    lret,       \* what the last get_python_logger returned (0: no call yet)
    lop,        \* the last operation: [op, name], op "none", "get", "reset", "flags"
    epoch,      \* since the last reset: [first, made], first result and loggers made
    \* textinterface.py: menu
    num_options, flag_allow_empty, flag_cancel,    \* menu's arguments
    mpc,        \* "idle", "outer" (line 381), "inner" (389), "input" (408), "done"
    option,     \* [none, val]
    flag_ok,
    n_try,
    s_option,   \* the text read last
    rejected,   \* the numbers refused so far as out of range
    mret,       \* what menu returned: [none, val]
    \* config.py: AAConfigObj
    tree,       \* the ConfigObj: a function from paths to sections and items
    cfile,      \* what write() wrote last
    cret,       \* outcome of the last get/set
    clast,      \* the last call: [op, path, default, before]
    \* filesqlite.py: FileSQLite
    path,       \* "file" (a path of a file) or ":memory:"
    impl,       \* what the subclass's _do_create_database does
    dbfile,     \* the file at path: [exists, tables, rows]
    conn,       \* self.__conn: [open, tables, rows] (the data of ':memory:')
    sret,       \* outcome of the last create_database
    slast,       \* the last call: [op, flag_overwrite, called, raised, before]
    \* asciichart.py seen from the caller: the objects passed to the calls
    sequences,  \* the caller's container: [kind, nested, kinds, data]
    acfg,       \* the caller's cfg: [none, map]
    calls,       \* the calls made so far: [fn, before, cfg, out]
    \* statementparsing.py: str2args
    sargs,      \* the statement, a str
    pos,        \* i, the position of the character looked at
    quote,      \* the opening quotation mark, "" for None
    quoting,
    expecting_space,
    flags,      \* _Flags: [inside, kwarg, backslash]
    bp,         \* break point: where the argument being read starts (-1: None)
    args,       \* the list of positional arguments
    kwargs,     \* the dict of keyword arguments: a function from keys to values
    pout,        \* outcome of str2args
    \* datafile.py: one DataFile object, its class and the files on disk
    filename,           \* self.filename: None or a path
    __flag_loaded,      \* self.__flag_loaded
    default_filename,   \* class attribute: None or a file name
    pkgname,            \* class_.__module__, split at the dots
    disk,               \* size of the file at each path, Missing if none
    hist                \* the calls made: [op, exc, loadok, filename, loaded]

plotVars == <<series, cfg, maxlines, legend, indent, pc, ret>>
renameVars == <<fs, _rename_to_temp_lock, th, returned, ncalls>>
loggerVars == <<_python_logger, _fmtr, flag_log_console, flag_log_file, loggers,
                lret, lop, epoch>>
menuVars == <<num_options, flag_allow_empty, flag_cancel, mpc, option, flag_ok,
              n_try, s_option, rejected, mret>>
configVars == <<tree, cfile, cret, clast>>
sqliteVars == <<path, impl, dbfile, conn, sret, slast>>
callerVars == <<sequences, acfg, calls>>
parseVars == <<sargs, pos, quote, quoting, expecting_space, flags, bp, args,
               kwargs, pout>>
dataVars == <<filename, __flag_loaded, default_filename, pkgname, disk, hist>>

vars == <<plotVars, renameVars, loggerVars, menuVars, configVars, sqliteVars,
         callerVars,
         parseVars,
         dataVars>>

----------------------------------------------------------------------------
(* Bounds of the model *)

MaxLen == 2         \* longest generic series
MaxHalf == 2        \* generic sample values range over 0, 1/2, ..., MaxHalf/2
MaxConst == 10      \* longest constant series
MaxHeight == 2      \* generic cfg['height'] ranges over 1..MaxHeight
MaxSeries == 2      \* most series in a list of series
MaxThreads == 2     \* threads that call rename_to_temp
MaxCalls == 4       \* calls of rename_to_temp in one run
MaxLoggers == 3     \* Logger objects created in one run
MaxOptions == 2     \* most options of a menu
MaxRows == 2        \* most rows inserted into the database
MaxRenders == 2     \* calls of asciichart and plot on one container
MaxStatement == 4   \* longest statement given to str2args
MaxOps == 3         \* calls made on one DataFile

----------------------------------------------------------------------------
(* Rational arithmetic standing for float arithmetic *)

R(n, d) == [nan |-> FALSE, n |-> n, d |-> d]
I(n) == R(n, 1)
NaN == [nan |-> TRUE, n |-> 0, d |-> 1]

isnan(x) == x.nan
_isnum(x) == ~isnan(x)

RLt(a, b) == a.n * b.d < b.n * a.d
RLe(a, b) == a.n * b.d <= b.n * a.d
REq(a, b) == a.n * b.d = b.n * a.d
RSub(a, b) == R(a.n * b.d - b.n * a.d, a.d * b.d)
RMul(a, b) == R(a.n * b.n, a.d * b.d)
\* a / b, b # 0
RDiv(a, b) == IF b.n > 0 THEN R(a.n * b.d, a.d * b.n)
                         ELSE R(-(a.n * b.d), -(a.d * b.n))
RMin(a, b) == IF RLt(b, a) THEN b ELSE a
RMax(a, b) == IF RLt(a, b) THEN b ELSE a

floor(a) == a.n \div a.d
ceil(a) == -((-a.n) \div a.d)
\* round with ties going up instead of to the even integer
round_HalfUp(a) ==
    LET f == floor(a)
    IN  IF 2 * (a.n - f * a.d) < a.d THEN f ELSE f + 1

\* Python 3 round(x): to the nearest integer, ties to the even one
round(a) ==
    LET f == floor(a)
        r2 == 2 * (a.n - f * a.d)
    IN  IF r2 < a.d THEN f
        ELSE IF r2 > a.d THEN f + 1
        ELSE IF f % 2 = 0 THEN f ELSE f + 1

----------------------------------------------------------------------------
(* Text: str as a sequence of characters *)

None == "None"
NL == "\n"

\* " " * k: empty for k <= 0
Spaces(k) == [i \in 1..(IF k > 0 THEN k ELSE 0) |-> " "]

DigitChar(k) == <<"0", "1", "2", "3", "4", "5", "6", "7", "8", "9">>[k + 1]

RECURSIVE Digits(_)
Digits(n) == IF n < 10 THEN <<DigitChar(n)>>
             ELSE Digits(n \div 10) \o <<DigitChar(n % 10)>>

\* s.rjust(w)
RJust(s, w) == Spaces(w - Len(s)) \o s

RAbs(a) == IF a.n < 0 THEN R(-a.n, a.d) ELSE a

\* str.format of the two label templates the docstring of plot shows:
\* "{:8.2f} " (the default) and "{:8.0f}"
Format(placeholder, v) ==
    LET sign == IF v.n < 0 THEN <<"-">> ELSE <<>>
    IN  IF placeholder = "{:8.2f} "
        THEN LET q == round(RMul(RAbs(v), I(100)))
             IN  RJust(sign \o Digits(q \div 100) \o <<".">>
                       \o <<DigitChar((q \div 10) % 10), DigitChar(q % 10)>>, 8)
                 \o <<" ">>
        ELSE RJust(sign \o Digits(round(RAbs(v))), 8)

\* s.rstrip()
RECURSIVE rstrip(_)
rstrip(s) == IF s # <<>> /\ s[Len(s)] = " "
             THEN rstrip(SubSeq(s, 1, Len(s) - 1)) ELSE s

\* ''.join(row): the cells of a row, each a str
RECURSIVE Concat(_)
Concat(ss) == IF ss = <<>> THEN <<>> ELSE Head(ss) \o Concat(Tail(ss))

\* '\n'.join(lines)
RECURSIVE JoinNL(_)
JoinNL(lines) == IF lines = <<>> THEN <<>>
                 ELSE IF Len(lines) = 1 THEN lines[1]
                 ELSE lines[1] \o <<NL>> \o JoinNL(Tail(lines))

\* text.split("\n"): always at least one line
RECURSIVE SplitNL(_)
SplitNL(text) ==
    IF \A k \in 1..Len(text) : text[k] # NL THEN <<text>>
    ELSE LET k == CHOOSE j \in 1..Len(text) :
                      text[j] = NL /\ \A m \in 1..(j - 1) : text[m] # NL
         IN  <<SubSeq(text, 1, k - 1)>> \o SplitNL(SubSeq(text, k + 1, Len(text)))

\* line.index("."): 0-based position of the first ".", -1 when there is none
DotIndex(line) ==
    IF \E k \in 1..Len(line) : line[k] = "."
    THEN (CHOOSE k \in 1..Len(line) :
              line[k] = "." /\ \A m \in 1..(k - 1) : line[m] # ".") - 1
    ELSE -1

SetMax(S) == CHOOSE x \in S : \A y \in S : y <= x
SetMin(S) == CHOOSE x \in S : \A y \in S : x <= y

----------------------------------------------------------------------------
(* Outcomes of a call *)

NoCall == [kind |-> "none"]
Return(text) == [kind |-> "return", text |-> text]
Raise(exc, msg) == [kind |-> "raise", exc |-> exc, msg |-> msg]

MinGtMax == "The min value cannot exceed the max value."
EmptyMin == "min() arg is an empty sequence"
EmptyMax == "max() arg is an empty sequence"
ListIndex == "list index out of range"
ListAssign == "list assignment index out of range"
TooTall == "Your chart has more than {maxlines} of text; maybe you would like to specify cfg['height']?"

----------------------------------------------------------------------------
(* plot(series, cfg), src/a107/asciichart.py *)

\* cfg.get(key, dflt) / key in cfg
CfgGet(c, key, dflt) == IF key \in DOMAIN c THEN c[key] ELSE dflt

\* '┼', '┤', '╶', '╴', '─', '╰', '╭', '╮', '╯', '│' in ASCII stand-ins
default_symbols == <<"+", "T", ">", "<", "=", "L", "r", "q", "J", "|">>
reset == "ESC[0m"

\* an entry of cfg['symbols']: None or a list of glyphs
SymNone == [none |-> TRUE, glyphs |-> <<>>]
Sym(g) == [none |-> FALSE, glyphs |-> g]

\* list[k] with Python's 0-based index
At(list, k) == list[k + 1]

colored(char, color) == IF color = None \/ color = ""
                        THEN <<char>> ELSE <<color, char, reset>>

\* [j for i in series for j in i]
AllSamples(ss) == Concat(ss)
NumSamples(ss) == SelectSeq(AllSamples(ss), _isnum)

SeqMin(s) == s[CHOOSE k \in 1..Len(s) : \A m \in 1..Len(s) : RLe(s[k], s[m])]
SeqMax(s) == s[CHOOSE k \in 1..Len(s) : \A m \in 1..Len(s) : RLe(s[m], s[k])]

\* the scale with the maximum quantized by round instead of ceil
Scale_RoundMax(ss, c) ==
    LET minimum == CfgGet(c, "min", SeqMin(NumSamples(ss)))
        maximum == CfgGet(c, "max", SeqMax(NumSamples(ss)))
        interval == RSub(maximum, minimum)
        offset == CfgGet(c, "offset", 3)
        height == CfgGet(c, "height", interval)
        ratio == IF interval.n > 0 THEN RDiv(height, interval) ELSE I(1)
        min2 == floor(RMul(minimum, ratio))
        max2 == round(RMul(maximum, ratio))
    IN  [minimum |-> minimum, maximum |-> maximum, interval |-> interval,
         offset |-> offset, height |-> height, ratio |-> ratio,
         min2 |-> min2, max2 |-> max2, rows |-> max2 - min2,
         width |-> SetMax({0} \cup {Len(ss[i]) : i \in 1..Len(ss)}) + offset,
         placeholder |-> CfgGet(c, "format", "{:8.2f} ")]

\* the scale that gives each unit of value one row, whatever cfg['height']
Scale_UnitRatio(ss, c) ==
    LET minimum == CfgGet(c, "min", SeqMin(NumSamples(ss)))
        maximum == CfgGet(c, "max", SeqMax(NumSamples(ss)))
        interval == RSub(maximum, minimum)
        offset == CfgGet(c, "offset", 3)
        height == CfgGet(c, "height", interval)
        ratio == I(1)
        min2 == floor(RMul(minimum, ratio))
        max2 == ceil(RMul(maximum, ratio))
    IN  [minimum |-> minimum, maximum |-> maximum, interval |-> interval,
         offset |-> offset, height |-> height, ratio |-> ratio,
         min2 |-> min2, max2 |-> max2, rows |-> max2 - min2,
         width |-> SetMax({0} \cup {Len(ss[i]) : i \in 1..Len(ss)}) + offset,
         placeholder |-> CfgGet(c, "format", "{:8.2f} ")]

\* the scale with the maximum quantized by floor, as the minimum is
Scale_FloorMax(ss, c) ==
    LET minimum == CfgGet(c, "min", SeqMin(NumSamples(ss)))
        maximum == CfgGet(c, "max", SeqMax(NumSamples(ss)))
        interval == RSub(maximum, minimum)
        offset == CfgGet(c, "offset", 3)
        height == CfgGet(c, "height", interval)
        ratio == IF interval.n > 0 THEN RDiv(height, interval) ELSE I(1)
        min2 == floor(RMul(minimum, ratio))
        max2 == floor(RMul(maximum, ratio))
    IN  [minimum |-> minimum, maximum |-> maximum, interval |-> interval,
         offset |-> offset, height |-> height, ratio |-> ratio,
         min2 |-> min2, max2 |-> max2, rows |-> max2 - min2,
         width |-> SetMax({0} \cup {Len(ss[i]) : i \in 1..Len(ss)}) + offset,
         placeholder |-> CfgGet(c, "format", "{:8.2f} ")]

\* the scale of a chart: lines 232-262 (ss has a numeric sample)
Scale(ss, c) ==
    LET minimum == CfgGet(c, "min", SeqMin(NumSamples(ss)))
        maximum == CfgGet(c, "max", SeqMax(NumSamples(ss)))
        interval == RSub(maximum, minimum)
        offset == CfgGet(c, "offset", 3)
        height == CfgGet(c, "height", interval)
        ratio == IF interval.n > 0 THEN RDiv(height, interval) ELSE I(1)
        min2 == floor(RMul(minimum, ratio))
        max2 == ceil(RMul(maximum, ratio))
    IN  [minimum |-> minimum, maximum |-> maximum, interval |-> interval,
         offset |-> offset, height |-> height, ratio |-> ratio,
         min2 |-> min2, max2 |-> max2, rows |-> max2 - min2,
         width |-> SetMax({0} \cup {Len(ss[i]) : i \in 1..Len(ss)}) + offset,
         placeholder |-> CfgGet(c, "format", "{:8.2f} ")]

\* no clamping: the sample as it is
clamp_Identity(sc, n) == n

clamp(sc, n) == RMin(RMax(n, sc.minimum), sc.maximum)

\* the quantization with ties rounded up
scaled_HalfUp(sc, y) == round_HalfUp(RMul(clamp(sc, y), sc.ratio)) - sc.min2

scaled(sc, y) == round(RMul(clamp(sc, y), sc.ratio)) - sc.min2

\* one assignment result[r][c] = s
W(r, c, s) == [r |-> r, c |-> c, s |-> s]

\* the label of row y (min2 <= y <= max2)
Label(sc, y) ==
    Format(sc.placeholder,
           RSub(sc.maximum,
                RDiv(RMul(I(y - sc.min2), sc.interval),
                     I(IF sc.rows # 0 THEN sc.rows ELSE 1))))

\* "axis and labels"
AxisWrites(sc) ==
    Concat([k \in 1..(sc.rows + 1) |->
        LET y == sc.min2 + k - 1
            label == Label(sc, y)
        IN  << W(y - sc.min2,
                 IF sc.offset - Len(label) > 0 THEN sc.offset - Len(label) ELSE 0,
                 label),
               W(y - sc.min2, sc.offset - 1,
                 <<IF y = 0 THEN At(default_symbols, 0)
                            ELSE At(default_symbols, 1)>>) >>])

\* "first value is a tick mark across the y-axis" (series[0] is not empty)
TickWrites(sc, ss) ==
    LET d0 == At(ss[1], 0)
    IN  IF _isnum(d0)
        THEN <<W(sc.rows - scaled(sc, d0), sc.offset - 1, <<At(default_symbols, 0)>>)>>
        ELSE <<>>

\* the pair loop with the leading edge drawn in the right sample's column
PairWrites_EdgeRight(sc, s, x, symbols, color) ==
    LET d0 == At(s, x + 0)
        d1 == At(s, x + 1)
        y0 == scaled(sc, d0)
        y1 == scaled(sc, d1)
        lo == (IF y0 < y1 THEN y0 ELSE y1) + 1
        hi == IF y0 < y1 THEN y1 ELSE y0
    IN  IF isnan(d0) /\ isnan(d1) THEN <<>>
        ELSE IF isnan(d0) /\ _isnum(d1)
        THEN <<W(sc.rows - y1, x + 1 + sc.offset, colored(At(symbols, 2), color))>>
        ELSE IF _isnum(d0) /\ isnan(d1)
        THEN <<W(sc.rows - y0, x + sc.offset, colored(At(symbols, 3), color))>>
        ELSE IF y0 = y1
        THEN <<W(sc.rows - y0, x + sc.offset, colored(At(symbols, 4), color))>>
        ELSE << W(sc.rows - y1, x + sc.offset,
                  colored(IF y0 > y1 THEN At(symbols, 5) ELSE At(symbols, 6), color)),
                W(sc.rows - y0, x + sc.offset,
                  colored(IF y0 > y1 THEN At(symbols, 7) ELSE At(symbols, 8), color)) >>
             \o [k \in 1..(hi - lo) |->
                    W(sc.rows - (lo + k - 1), x + sc.offset,
                      colored(At(symbols, 9), color))]

\* a pair whose right sample is missing drawn as a flat run of the left sample
PairWrites_TrailingFlat(sc, s, x, symbols, color) ==
    LET d0 == At(s, x + 0)
        d1 == At(s, x + 1)
        y0 == scaled(sc, d0)
        y1 == scaled(sc, d1)
    IN  IF isnan(d0) /\ isnan(d1) THEN <<>>
        ELSE IF isnan(d0) /\ _isnum(d1)
        THEN <<W(sc.rows - y1, x + sc.offset, colored(At(symbols, 2), color))>>
        ELSE IF _isnum(d0) /\ isnan(d1)
        THEN <<W(sc.rows - y0, x + sc.offset, colored(At(symbols, 4), color))>>
        ELSE <<W(sc.rows - y0, x + sc.offset, colored(At(symbols, 4), color))>>

\* the pair loop without the fill between the two corners
PairWrites_NoFill(sc, s, x, symbols, color) ==
    LET d0 == At(s, x + 0)
        d1 == At(s, x + 1)
        y0 == scaled(sc, d0)
        y1 == scaled(sc, d1)
    IN  IF isnan(d0) /\ isnan(d1) THEN <<>>
        ELSE IF isnan(d0) /\ _isnum(d1)
        THEN <<W(sc.rows - y1, x + sc.offset, colored(At(symbols, 2), color))>>
        ELSE IF _isnum(d0) /\ isnan(d1)
        THEN <<W(sc.rows - y0, x + sc.offset, colored(At(symbols, 3), color))>>
        ELSE IF y0 = y1
        THEN <<W(sc.rows - y0, x + sc.offset, colored(At(symbols, 4), color))>>
        ELSE << W(sc.rows - y1, x + sc.offset,
                  colored(IF y0 > y1 THEN At(symbols, 5) ELSE At(symbols, 6), color)),
                W(sc.rows - y0, x + sc.offset,
                  colored(IF y0 > y1 THEN At(symbols, 7) ELSE At(symbols, 8), color)) >>

\* one turn of the loop "for x in range(0, len(series[i]) - 1)"
PairWrites(sc, s, x, symbols, color) ==
    LET d0 == At(s, x + 0)
        d1 == At(s, x + 1)
        y0 == scaled(sc, d0)
        y1 == scaled(sc, d1)
        lo == (IF y0 < y1 THEN y0 ELSE y1) + 1
        hi == IF y0 < y1 THEN y1 ELSE y0
    IN  IF isnan(d0) /\ isnan(d1) THEN <<>>
        ELSE IF isnan(d0) /\ _isnum(d1)
        THEN <<W(sc.rows - y1, x + sc.offset, colored(At(symbols, 2), color))>>
        ELSE IF _isnum(d0) /\ isnan(d1)
        THEN <<W(sc.rows - y0, x + sc.offset, colored(At(symbols, 3), color))>>
        ELSE IF y0 = y1
        THEN <<W(sc.rows - y0, x + sc.offset, colored(At(symbols, 4), color))>>
        ELSE << W(sc.rows - y1, x + sc.offset,
                  colored(IF y0 > y1 THEN At(symbols, 5) ELSE At(symbols, 6), color)),
                W(sc.rows - y0, x + sc.offset,
                  colored(IF y0 > y1 THEN At(symbols, 7) ELSE At(symbols, 8), color)) >>
             \o [k \in 1..(hi - lo) |->
                    W(sc.rows - (lo + k - 1), x + sc.offset,
                      colored(At(symbols, 9), color))]

\* the single symbol loop stopping before the last sample, as the pair loop does
PointWrites_LastSkipped(sc, s, x, symbols, color) ==
    LET d == At(s, x)
    IN  IF isnan(d) \/ x = Len(s) - 1 THEN <<>>
        ELSE <<W(sc.rows - scaled(sc, d), x + sc.offset,
                 colored(At(symbols, 0), color))>>

\* one turn of the loop "for x in range(len(series[i]))" of a single symbol
PointWrites(sc, s, x, symbols, color) ==
    LET d == At(s, x)
    IN  IF isnan(d) THEN <<>>
        ELSE <<W(sc.rows - scaled(sc, d), x + sc.offset,
                 colored(At(symbols, 0), color))>>

\* one turn of the loop "for i in range(0, len(series))"
SeriesWrites(sc, ss, c, i) ==
    LET colors == CfgGet(c, "colors", <<None>>)
        symbolss == CfgGet(c, "symbols", <<Sym(default_symbols)>>)
        color == At(colors, i % Len(colors))
        entry == At(symbolss, i % Len(symbolss))
        symbols == IF entry.none THEN default_symbols ELSE entry.glyphs
        flag_ss == Len(symbols) = 1
        s == At(ss, i)
    IN  IF ~flag_ss
        THEN Concat([k \in 1..(Len(s) - 1) |-> PairWrites(sc, s, k - 1, symbols, color)])
        ELSE Concat([k \in 1..Len(s) |-> PointWrites(sc, s, k - 1, symbols, color)])

DataWrites(sc, ss, c) ==
    Concat([k \in 1..Len(ss) |-> SeriesWrites(sc, ss, c, k - 1)])

\* Python list indexing: -len <= k < len, negative indices count from the end
InRange(k, len) == -len <= k /\ k < len
Norm(k, len) == IF k < 0 THEN k + len ELSE k
WriteOk(sc, w) == InRange(w.r, sc.rows + 1) /\ InRange(w.c, sc.width)

\* result[r][c] = s for each assignment of ws[k..], in order, on the grid g
RECURSIVE Assign(_, _, _, _)
Assign(sc, g, ws, k) ==
    IF k > Len(ws) THEN g
    ELSE LET r == Norm(ws[k].r, sc.rows + 1)
             col == Norm(ws[k].c, sc.width)
         IN  Assign(sc, [g EXCEPT ![r][col] = ws[k].s], ws, k + 1)

\* result after the assignments ws, from [[' '] * width for i in range(rows + 1)]
Grid(sc, ws) ==
    Assign(sc, [r \in 0..sc.rows |-> [col \in 0..(sc.width - 1) |-> <<" ">>]], ws, 1)

\* '\n'.join([''.join(row).rstrip() for row in result])
GridText(sc, g) ==
    JoinNL([k \in 1..(sc.rows + 1) |->
               rstrip(Concat([j \in 1..sc.width |-> g[k - 1][j - 1]]))])

\* the comparison of the bounds the wrong way round
BoundsError_Swapped(sc) == RLt(sc.minimum, sc.maximum)

\* "if minimum > maximum"
BoundsError(sc) == RLt(sc.maximum, sc.minimum)

\* every assignment to result, in program order (series[0] is not empty)
PlotWrites(sc, ss, c) == AxisWrites(sc) \o TickWrites(sc, ss) \o DataWrites(sc, ss, c)

\* lines 228-326, for series a list of lists
PlotBody(ss, c) ==
    IF NumSamples(ss) = <<>> THEN Raise("ValueError", EmptyMin)
    ELSE LET sc == Scale(ss, c)
             aw == AxisWrites(sc)
         IN  IF BoundsError(sc) THEN Raise("ValueError", MinGtMax)
             ELSE IF \E k \in 1..Len(aw) : ~WriteOk(sc, aw[k])
             THEN Raise("IndexError", ListAssign)
             ELSE IF Len(ss[1]) = 0 THEN Raise("IndexError", ListIndex)
             ELSE LET ws == PlotWrites(sc, ss, c)
                  IN  IF \E k \in 1..Len(ws) : ~WriteOk(sc, ws[k])
                      THEN Raise("IndexError", ListAssign)
                      ELSE Return(GridText(sc, Grid(sc, ws)))

\* The series argument s = [nested, data].  nested is isinstance(series[0], list);
\* data is the list of lists plot works on: series itself when nested, [series]
\* when it is a single list of samples (Items(s) is then that list).
Items(s) == IF s.nested THEN s.data ELSE s.data[1]

\* plot without the early return for a series of missing values only
plot_NoNaNCheck(s, c) ==
    IF Len(Items(s)) = 0 THEN Return(<<>>)
    ELSE IF ~s.nested THEN PlotBody(<<Items(s)>>, c)
    ELSE PlotBody(s.data, c)

\* plot(series, cfg)
plot(s, c) ==
    IF Len(Items(s)) = 0 THEN Return(<<>>)
    ELSE IF ~s.nested
    THEN IF \A k \in 1..Len(Items(s)) : isnan(Items(s)[k]) THEN Return(<<>>)
         ELSE PlotBody(<<Items(s)>>, c)
    ELSE PlotBody(s.data, c)

----------------------------------------------------------------------------
(* asciichart(sequences, cfg, maxlines, legend, indent) *)

\* the lines joined as plot made them, without the padding
fix_asciichart_Unaligned(lines) == Return(JoinNL(lines))

\* fix_asciichart(lines): max([]) raises ValueError
fix_asciichart(lines) ==
    LET dots == {DotIndex(lines[k]) : k \in 1..Len(lines)} \ {-1}
    IN  IF dots = {} THEN Raise("ValueError", EmptyMax)
        ELSE LET dotidx == SetMax(dots)
             IN  Return(JoinNL([k \in 1..Len(lines) |->
                     IF DotIndex(lines[k]) # -1
                     THEN Spaces(dotidx - DotIndex(lines[k])) \o lines[k]
                     ELSE lines[k]]))

\* get_color(i): <<color, reset>>
get_color(c, i) ==
    IF "colors" \notin DOMAIN c THEN <<"", "">>
    ELSE IF i < Len(c["colors"]) THEN <<At(c["colors"], i), reset>>
    ELSE <<"", "">>

\* get_legendsymbol(i); DEF is '─'
get_legendsymbol(c, i) ==
    LET DEF_ == At(default_symbols, 4)
    IN  IF "symbols" \notin DOMAIN c THEN DEF_
        ELSE IF i < Len(c["symbols"])
        THEN IF ~At(c["symbols"], i).none THEN At(At(c["symbols"], i).glyphs, 0) ELSE DEF_
        ELSE DEF_

\* f"{color}{legendsymbol*2}{reset} {legend_i}"
LegendLine(c, lg, i) ==
    LET cr == get_color(c, i)
        sy == get_legendsymbol(c, i)
    IN  (IF cr[1] = "" THEN <<>> ELSE <<cr[1]>>) \o <<sy, sy>>
        \o (IF cr[2] = "" THEN <<>> ELSE <<cr[2]>>) \o <<" ">> \o At(lg, i)

\* the `legend` argument: None or a list of texts
LegendNone == [none |-> TRUE, items |-> <<>>]
Legend(items) == [none |-> FALSE, items |-> items]

\* lines 77-87: the legend block and the indent
Decorate(c, text, lg, ind) ==
    LET t1 == IF ~lg.none
              THEN text \o <<NL>>
                   \o JoinNL([k \in 1..Len(lg.items) |-> LegendLine(c, lg.items, k - 1)])
              ELSE text
        ls == SplitNL(t1)
    IN  IF ind > 0 THEN JoinNL([k \in 1..Len(ls) |-> Spaces(ind) \o ls[k]])
        ELSE t1

\* the line limit off by one
TooManyLines_OffByOne(lines, ml) == Len(lines) > ml + 1

\* "if len(lines) > maxlines"
TooManyLines(lines, ml) == Len(lines) > ml

\* cfg is a dict here (None is replaced by {} at line 66); lines 67-69 replace
\* each sequence by list(sequence), which for the lists of samples modelled
\* here yields an equal list
asciichart(s, c, ml, lg, ind) ==
    LET r == plot(s, c)
    IN  IF r.kind = "raise" THEN r
        ELSE LET lines == SplitNL(r.text)
             IN  IF TooManyLines(lines, ml) THEN Raise("ValueError", TooTall)
                 ELSE LET fixed == fix_asciichart(lines)
                      IN  IF fixed.kind = "raise" THEN fixed
                          ELSE Return(Decorate(c, fixed.text, lg, ind))

----------------------------------------------------------------------------
(* The calls the model makes *)

Half(k) == IF k % 2 = 0 THEN I(k \div 2) ELSE R(k, 2)

Flat(d) == [nested |-> FALSE, data |-> <<d>>]
Nested(d) == [nested |-> TRUE, data |-> d]

EmptyCfg == [k \in {} |-> None]
Opt(key, vals) == {EmptyCfg} \cup {key :> v : v \in vals}

\* generic single series, with and without min, max and height
Samples == {NaN} \cup {Half(k) : k \in 0..MaxHalf}
GenericSeries == {Flat(d) : d \in UNION {[1..n -> Samples] : n \in 0..MaxLen}}
BoundVals == {R(1, 2), I(1), R(3, 2)}
GenericCfgs ==
    {a @@ b @@ h : a \in Opt("min", BoundVals), b \in Opt("max", BoundVals),
                   h \in Opt("height", {I(k) : k \in 1..MaxHeight})}

\* the other options
OptionSeries == {Flat(<<>>), Flat(<<NaN>>), Flat(<<I(1)>>), Flat(<<I(1), I(3)>>),
                 Flat(<<NaN, I(2), R(1, 2)>>), Flat(<<I(1), NaN, NaN, I(2)>>)}
MinMax == {EmptyCfg, ("min" :> I(1)) @@ ("max" :> I(2)), ("min" :> I(2)) @@ ("max" :> I(1))}
OptionCfgs ==
    {m @@ o @@ f @@ co @@ sy :
        m \in MinMax,
        o \in Opt("offset", {1, 4, 12}),
        f \in Opt("format", {"{:8.0f}"}),
        co \in Opt("colors", {<<"ESC[31m">>}),
        sy \in Opt("symbols", {<<Sym(<<"o">>)>>, <<SymNone>>})}

\* lists of series
InnerSeries == {<<>>, <<NaN>>, <<I(1)>>, <<NaN, NaN>>, <<I(1), I(2)>>, <<I(2), I(1)>>,
                <<NaN, I(2)>>, <<I(2), NaN>>}
NestedSeries == {Nested(d) : d \in UNION {[1..n -> InnerSeries] : n \in 1..MaxSeries}}
NestedCfgs ==
    MinMax \cup {"symbols" :> <<SymNone, Sym(<<"o">>)>>,
                 "colors" :> <<"ESC[31m", "ESC[32m">>,
                 "colors" :> <<"ESC[31m">>}

\* the examples of plot's docstring
Doc1 == <<I(1), I(2), I(3), I(4), NaN, I(4), I(3), I(2), I(1)>>
Doc2 == <<I(10), I(20), I(30), I(40), I(50), I(40), I(30), I(20), I(10)>>
Doc3 == << <<I(10), I(20), I(30), I(40), I(30), I(20), I(10)>>,
           <<I(40), I(30), I(20), I(10), I(20), I(30), I(40)>> >>
DocCalls ==
    {[s |-> Flat(Doc1), c |-> c] :
        c \in {EmptyCfg, "min" :> I(0), "min" :> I(2), ("min" :> I(2)) @@ ("max" :> I(3))}}
    \cup {[s |-> Flat(Doc2), c |-> c] :
        c \in {"height" :> I(4), ("height" :> I(4)) @@ ("format" :> "{:8.0f}")}}
    \cup {[s |-> Nested(Doc3), c |-> "height" :> I(3)]}

\* a constant series of n samples 5.0 with height=1, min=0, max=10
ConstCfg == ("height" :> I(1)) @@ ("min" :> I(0)) @@ ("max" :> I(10))
ConstCalls == {[s |-> Flat([k \in 1..n |-> I(5)]), c |-> ConstCfg] : n \in 1..MaxConst}

\* labels of different widths, and a glyph that is a decimal point
WideCalls ==
    {[s |-> Flat(<<I(0), I(100000)>>), c |-> "height" :> I(1)],
     [s |-> Flat(<<I(-100000), I(0)>>), c |-> ("height" :> I(1)) @@ ("offset" :> 12)],
     [s |-> Flat(<<I(1), I(3)>>),
      c |-> ("symbols" :> <<Sym(<<".">>)>>) @@ ("format" :> "{:8.0f}")]}

\* (maxlines, legend, indent) of an asciichart call; the defaults are (100, None, 0)
ChartArgs ==
    {[maxlines |-> m, legend |-> LegendNone, indent |-> 0] : m \in {1, 100}}
    \cup {[maxlines |-> 2, legend |-> Legend(<< <<"A">>, <<"B">> >>), indent |-> 0],
          [maxlines |-> 100, legend |-> Legend(<< <<"A">>, <<"B">> >>), indent |-> 2]}

----------------------------------------------------------------------------
(* The modules at rest: the values of their variables before any call *)

NoneInt == [none |-> TRUE, val |-> 0]
SomeInt(n) == [none |-> FALSE, val |-> n]

PlotIdle ==
    /\ series = Flat(<<>>) /\ cfg = EmptyCfg
    /\ maxlines = 100 /\ legend = LegendNone /\ indent = 0
    /\ pc = "idle" /\ ret = NoCall

RenameIdle ==
    /\ fs = {} /\ _rename_to_temp_lock = 0 /\ th = <<>>
    /\ returned = <<>> /\ ncalls = 0

\* the module globals of loggingaux.py (lines 15-16) and a107/__init__.py (10, 13)
LoggerIdle ==
    /\ _python_logger = 0 /\ _fmtr = FALSE
    /\ flag_log_console = TRUE /\ flag_log_file = FALSE
    /\ loggers = <<>> /\ lret = 0 /\ lop = [op |-> "none", name |-> None]
    /\ epoch = [first |-> 0, made |-> 0]

MenuIdle ==
    /\ num_options = 0 /\ flag_allow_empty = FALSE /\ flag_cancel = TRUE
    /\ mpc = "idle" /\ option = NoneInt /\ flag_ok = FALSE /\ n_try = 0
    /\ s_option = <<>> /\ rejected = {} /\ mret = NoneInt

ConfigIdle ==
    /\ tree = <<>> /\ cfile = <<>> /\ cret = NoCall /\ clast = [op |-> "none"]

SqliteIdle ==
    /\ path = "file" /\ impl = "noop"
    /\ dbfile = [exists |-> FALSE, tables |-> 0, rows |-> 0]
    /\ conn = [open |-> FALSE, tables |-> 0, rows |-> 0]
    /\ sret = NoCall /\ slast = [op |-> "none"]

CallerIdle ==
    /\ sequences = [kind |-> "list", nested |-> FALSE, kinds |-> <<>>, data |-> <<<<>>>>]
    /\ acfg = [none |-> TRUE, map |-> EmptyCfg]
    /\ calls = <<>>

\* the locals of str2args as lines 27 and 46-52 set them
ParseIdle ==
    /\ sargs = <<>> /\ pos = 0 /\ quote = "" /\ quoting = FALSE
    /\ expecting_space = FALSE
    /\ flags = [inside |-> FALSE, kwarg |-> FALSE, backslash |-> FALSE]
    /\ bp = -1 /\ args = <<>> /\ kwargs = <<>> /\ pout = NoCall

\* a DataFile as __init__ leaves it (lines 36-37), no file on disk
DataIdle ==
    /\ filename = None /\ __flag_loaded = FALSE
    /\ default_filename = None /\ pkgname = <<>>
    /\ disk = <<>> /\ hist = <<>>

----------------------------------------------------------------------------
(* The state machine: choose the arguments, then call plot or asciichart *)

Init ==
    /\ \/ \E s \in GenericSeries, c \in GenericCfgs : series = s /\ cfg = c
       \/ \E s \in OptionSeries, c \in OptionCfgs : series = s /\ cfg = c
       \/ \E s \in NestedSeries, c \in NestedCfgs : series = s /\ cfg = c
       \/ \E call \in DocCalls \cup ConstCalls \cup WideCalls :
              series = call.s /\ cfg = call.c
    /\ maxlines = 100
    /\ legend = LegendNone
    /\ indent = 0
    /\ pc = "ready"
    /\ ret = NoCall
    /\ RenameIdle /\ LoggerIdle /\ MenuIdle /\ ConfigIdle /\ SqliteIdle
    /\ CallerIdle /\ ParseIdle /\ DataIdle

CallPlot ==
    /\ pc = "ready"
    /\ ret' = plot(series, cfg)
    /\ pc' = "plot"
    /\ UNCHANGED <<series, cfg, maxlines, legend, indent>>
    /\ UNCHANGED <<renameVars, loggerVars, menuVars, configVars, sqliteVars,
                   callerVars, parseVars, dataVars>>

CallAsciichart ==
    /\ pc = "ready"
    /\ \E a \in ChartArgs :
        /\ maxlines' = a.maxlines
        /\ legend' = a.legend
        /\ indent' = a.indent
        /\ ret' = asciichart(series, cfg, a.maxlines, a.legend, a.indent)
    /\ pc' = "asciichart"
    /\ UNCHANGED <<series, cfg>>
    /\ UNCHANGED <<renameVars, loggerVars, menuVars, configVars, sqliteVars,
                   callerVars, parseVars, dataVars>>

Next == CallPlot \/ CallAsciichart

Spec == Init /\ [][Next]_vars

----------------------------------------------------------------------------
(* Vocabulary of the properties *)

HasNumeric == NumSamples(series.data) # <<>>
EverySeriesNumeric ==
    \A i \in 1..Len(series.data) :
        \E k \in 1..Len(series.data[i]) : _isnum(series.data[i][k])
FlatAllMissing ==
    ~series.nested /\ \A k \in 1..Len(Items(series)) : isnan(Items(series)[k])
GivenMinGtMax ==
    "min" \in DOMAIN cfg /\ "max" \in DOMAIN cfg /\ RLt(cfg["max"], cfg["min"])

\* the bounds in force: those of cfg, else those observed (HasNumeric)
EffMin == IF "min" \in DOMAIN cfg THEN cfg["min"] ELSE SeqMin(NumSamples(series.data))
EffMax == IF "max" \in DOMAIN cfg THEN cfg["max"] ELSE SeqMax(NumSamples(series.data))
ValidBounds == IF HasNumeric THEN RLe(EffMin, EffMax) ELSE ~GivenMinGtMax
EffRatio ==
    IF RLt(EffMin, EffMax)
    THEN RDiv(IF "height" \in DOMAIN cfg THEN cfg["height"] ELSE RSub(EffMax, EffMin),
              RSub(EffMax, EffMin))
    ELSE I(1)
EffOffset == IF "offset" \in DOMAIN cfg THEN cfg["offset"] ELSE 3

Returned == ret.kind = "return"
RetLines == SplitNL(ret.text)
Count(text, chars) == Cardinality({k \in 1..Len(text) : text[k] \in chars})
Connectors == {">", "<", "=", "L", "r", "q", "J", "|"}

\* series i (from 0) is drawn with lines, in this colour
LineMode(i) ==
    \/ "symbols" \notin DOMAIN cfg
    \/ LET e == At(cfg["symbols"], i % Len(cfg["symbols"]))
       IN  e.none \/ Len(e.glyphs) # 1
ColorOf(i) == IF "colors" \in DOMAIN cfg
              THEN At(cfg["colors"], i % Len(cfg["colors"])) ELSE None

\* the grid of a call of plot that returned a chart, and what was written to it
CallScale == Scale(series.data, cfg)
CallWrites == PlotWrites(CallScale, series.data, cfg)
CallGrid == Grid(CallScale, CallWrites)
Written(w) == LET ws == CallWrites IN \E k \in 1..Len(ws) : ws[k] = w

----------------------------------------------------------------------------
(* C1: min > max *)

\* C1 as stated: whenever cfg gives min > max, plot fails with the configuration
\* error, whatever the series, empty and all-missing ones included.
C1_Original ==
    (pc = "plot" /\ GivenMinGtMax)
        => ret = Raise("ValueError", MinGtMax)

\* C1 amended: whenever cfg gives min > max, plot raises ValueError and returns no
\* text, and the error is the configuration error when the series has a numeric
\* sample; except that an empty series and a single series of missing values
\* only make plot return the empty string.
C1_MinGtMax ==
    (pc = "plot" /\ GivenMinGtMax)
        => IF FlatAllMissing THEN ret = Return(<<>>)
           ELSE /\ ret.kind = "raise"
                /\ ret.exc = "ValueError"
                /\ HasNumeric => ret.msg = MinGtMax

C1_Witness ==
    /\ pc = "plot" /\ GivenMinGtMax /\ HasNumeric
    /\ {"offset", "format", "colors", "symbols"} \subseteq DOMAIN cfg
    /\ ret = Raise("ValueError", MinGtMax)

----------------------------------------------------------------------------
(* C2: empty output *)

\* C2: plot returns the empty string for an empty series and for a single series
\* whose samples are all missing, for every cfg.
C2_EmptyOutput ==
    (pc = "plot" /\ FlatAllMissing) => ret = Return(<<>>)

C2_Witness ==
    /\ pc = "plot" /\ FlatAllMissing /\ Len(Items(series)) > 1
    /\ GivenMinGtMax
    /\ ret = Return(<<>>)

----------------------------------------------------------------------------
(* C3, C4: the inputs that must not raise *)

PlotFits ==
    LET r == plot(series, cfg)
    IN  r.kind = "return" /\ Len(SplitNL(r.text)) <= maxlines

\* C3: asciichart never raises for an empty series, an all-missing series or a
\* single-point series when the bounds are valid and the chart fits in maxlines.
C3_Original ==
    (/\ pc = "asciichart" /\ ~series.nested
     /\ FlatAllMissing \/ Len(Items(series)) = 1
     /\ ValidBounds /\ PlotFits)
        => Returned

\* C4: plot never raises for a list of series whose samples are all missing, or
\* one of whose series is empty, with min and max given or not.
C4_Original ==
    (/\ pc = "plot" /\ series.nested
     /\ ~HasNumeric \/ \E i \in 1..Len(series.data) : Len(series.data[i]) = 0
     /\ ValidBounds)
        => Returned

----------------------------------------------------------------------------
(* C5: the line limit of asciichart *)

\* the lines of asciichart's result that are not legend lines
ChartLines == Len(RetLines) - (IF legend.none THEN 0 ELSE Len(legend.items))

\* C5: asciichart fails with the too-tall error whenever the text of plot has more
\* than maxlines lines, in particular when no height is given and the natural row
\* count ceil(max) - floor(min) + 1 exceeds maxlines; when it returns, the chart
\* part of its result has at most maxlines lines.
C5_TooTall ==
    pc = "asciichart" =>
        LET r == plot(series, cfg)
        IN  r.kind = "return" =>
            /\ Len(SplitNL(r.text)) > maxlines => ret = Raise("ValueError", TooTall)
            /\ (HasNumeric /\ "height" \notin DOMAIN cfg
                    /\ ceil(EffMax) - floor(EffMin) + 1 > maxlines)
                   => ret = Raise("ValueError", TooTall)
            /\ Returned => ChartLines <= maxlines

C5_Witness ==
    /\ pc = "asciichart" /\ HasNumeric /\ "height" \notin DOMAIN cfg
    /\ ceil(EffMax) - floor(EffMin) + 1 = maxlines + 1
    /\ ret = Raise("ValueError", TooTall)

----------------------------------------------------------------------------
(* C6: the number of lines *)

\* C6: for series with a numeric sample each and valid cfg, the text of plot has
\* ceil(max * ratio) - floor(min * ratio) + 1 lines, ratio being height / (max - min)
\* when max > min and 1 otherwise, and no line of it is empty.
C6_LineCount ==
    (pc = "plot" /\ EverySeriesNumeric /\ ValidBounds)
        => /\ Returned
           /\ Len(RetLines) = ceil(RMul(EffMax, EffRatio)) - floor(RMul(EffMin, EffRatio)) + 1
           /\ \A k \in 1..Len(RetLines) : RetLines[k] # <<>>

\* a chart of three lines for height 2, one of them holding nothing but its label
C6_Witness ==
    /\ pc = "plot" /\ EverySeriesNumeric /\ ValidBounds
    /\ "height" \in DOMAIN cfg /\ ~REq(EffRatio, I(1))
    /\ Returned /\ Len(RetLines) = 3
    /\ \E k \in 1..3 : Count(RetLines[k], Connectors) = 0

----------------------------------------------------------------------------
(* C7, C8: one row *)

\* C7: when the bounds coincide, min = max = v, whatever v, the output of plot has
\* exactly one row.
C7_Original ==
    (pc = "plot" /\ EverySeriesNumeric /\ REq(EffMin, EffMax))
        => Returned /\ Len(RetLines) = 1

\* C8: a single series of one finite sample and the default cfg give exactly one
\* labelled row, with one tick mark in the axis column and no connector glyph.
C8_Original ==
    (pc = "plot" /\ ~series.nested /\ Len(Items(series)) = 1 /\ HasNumeric
               /\ DOMAIN cfg = {})
        => /\ Returned
           /\ Len(RetLines) = 1
           /\ Count(ret.text, {"+", "T"}) = 1
           /\ Count(ret.text, Connectors) = 0

----------------------------------------------------------------------------
(* C9: a constant series *)

\* n samples 5.0 with height=1, min=0, max=10
IsConstCall ==
    /\ ~series.nested
    /\ \A k \in 1..Len(Items(series)) : Items(series)[k] = I(5)
    /\ DOMAIN cfg = DOMAIN ConstCfg /\ cfg = ConstCfg

\* a single series of equal numeric samples drawn with lines
IsConstantLine ==
    /\ ~series.nested /\ HasNumeric /\ LineMode(0)
    /\ \A k \in 1..Len(Items(series)) : Items(series)[k] = Items(series)[1]

\* C9 as stated: 10 samples 5.0 with height=1, min=0, max=10 have the flat glyph
\* in 10 plot columns, one per sample.
C9_Original ==
    (pc = "plot" /\ IsConstCall /\ Len(Items(series)) = 10)
        => Returned /\ Count(ret.text, {"="}) = Len(Items(series))

\* C9 amended: n samples 5.0 with height=1, min=0, max=10 give two rows, the flat
\* glyph in the n - 1 plot columns 0..n-2 (one per adjacent pair) of the bottom
\* row, labelled 0.00, which is where 5 is quantized (round(0.5) = 0), and no
\* other connector glyph; in general a constant series of n samples drawn with
\* lines yields a flat glyph in n - 1 columns and no other connector glyph.
C9_FlatRun ==
    /\ (pc = "plot" /\ IsConstCall)
        => ret = Return(<<" ", " ", " ", "1", "0", ".", "0", "0", " ", " ", "+", NL,
                          " ", " ", " ", " ", "0", ".", "0", "0", " ", " ", "+">>
                        \o [k \in 1..(Len(Items(series)) - 1) |-> "="])
    /\ (pc = "plot" /\ IsConstantLine /\ ValidBounds)
        => /\ Returned
           /\ Count(ret.text, {"="}) = Len(Items(series)) - 1
           /\ Count(ret.text, Connectors \ {"="}) = 0

C9_Witness ==
    /\ pc = "plot" /\ IsConstCall /\ Len(Items(series)) = 10
    /\ Returned /\ Count(ret.text, {"="}) = 9

----------------------------------------------------------------------------
(* C10: the edge after a gap *)

\* the pairs (x, x+1) of series i whose left sample is missing and right one present
AfterGap(i, x) ==
    /\ isnan(At(At(series.data, i), x))
    /\ _isnum(At(At(series.data, i), x + 1))

\* the cell of the leading-edge glyph of series i for the sample d, in column col
EdgeCell(i, d, col) ==
    W(CallScale.rows - scaled(CallScale, d), col + EffOffset, colored(">", ColorOf(i)))

\* C10 as stated: for a pair (x, x+1) with the left sample missing and the right
\* one present, the leading-edge glyph is in the right sample's column, plot
\* column x+1, on the right sample's row.
C10_Original ==
    (pc = "plot" /\ Returned /\ HasNumeric /\ ~series.nested /\ LineMode(0))
        => \A x \in 0..(Len(Items(series)) - 2) :
              AfterGap(0, x) =>
                  LET w == EdgeCell(0, At(Items(series), x + 1), x + 1)
                  IN  CallGrid[w.r][w.c] = w.s

\* C10 amended: for a pair (x, x+1) of a line-mode series with the left sample
\* missing and the right one present, plot writes the leading-edge glyph on the
\* right sample's row in the column of the left, missing, sample (plot column x),
\* and for a single series the chart shows it there; for
\* [1,2,3,4,NaN,4,3,2,1] with the default cfg the edge glyph after the gap is at
\* index 4.
C10_LeadingEdge ==
    /\ (pc = "plot" /\ Returned /\ HasNumeric)
        => \A i \in 0..(Len(series.data) - 1) :
              LineMode(i) =>
                \A x \in 0..(Len(At(series.data, i)) - 2) :
                  AfterGap(i, x) =>
                      LET w == EdgeCell(i, At(At(series.data, i), x + 1), x)
                      IN  /\ Written(w)
                          /\ ~series.nested => CallGrid[w.r][w.c] = w.s
    /\ (pc = "plot" /\ series = Flat(Doc1) /\ DOMAIN cfg = {})
        => /\ Returned
           /\ RetLines[1] = <<" ", " ", " ", " ", "4", ".", "0", "0", " ", " ", "T",
                              " ", " ", "r", "<", ">", "q">>

C10_Witness ==
    /\ pc = "plot" /\ series = Flat(Doc1) /\ DOMAIN cfg = {}
    /\ Returned /\ AfterGap(0, 4)
    /\ RetLines[1][11 + 4 + 1] = ">"

----------------------------------------------------------------------------
(* C11: the edge before a gap *)

\* the pairs (x, x+1) of series i whose left sample is present and right one missing
BeforeGap(i, x) ==
    /\ _isnum(At(At(series.data, i), x))
    /\ isnan(At(At(series.data, i), x + 1))

\* the pairs (x, x+1) of series i with a missing sample
GapPair(i, x) ==
    \/ isnan(At(At(series.data, i), x))
    \/ isnan(At(At(series.data, i), x + 1))

\* the cell of the trailing-edge glyph of series i for the sample d, in column col
TrailCell(i, d, col) ==
    W(CallScale.rows - scaled(CallScale, d), col + EffOffset, colored("<", ColorOf(i)))

\* the glyphs that join two samples, in the colour of series i
Joining(i) == {colored(g, ColorOf(i)) : g \in {"=", "L", "r", "q", "J", "|"}}

\* the cells of plot column x that are not blank
Inked(x) ==
    LET grid == CallGrid
    IN  {r \in 0..CallScale.rows : grid[r][x + EffOffset] # <<" ">>}

\* C11: for a pair (x, x+1) of a line-mode series with the left sample present
\* and the right one missing, plot writes the trailing-edge glyph on the left
\* sample's row in plot column x; for a pair with a missing sample it writes
\* exactly one glyph, an edge glyph, and no flat, corner or vertical glyph, and
\* for a pair of two missing samples it writes nothing: the column of a single
\* series stays blank.
C11_TrailingEdge ==
    (pc = "plot" /\ Returned /\ HasNumeric)
        => \A i \in 0..(Len(series.data) - 1) :
              LineMode(i) =>
                \A x \in 0..(Len(At(series.data, i)) - 2) :
                  LET s == At(series.data, i)
                      w == TrailCell(i, At(s, x), x)
                      all == CallWrites
                      grid == CallGrid
                      ws == {v \in 1..Len(all) : all[v].c = x + EffOffset}
                  IN  /\ BeforeGap(i, x) =>
                          /\ Written(w)
                          /\ ~series.nested =>
                                /\ grid[w.r][w.c] = w.s
                                /\ Inked(x) = {w.r}
                      /\ (GapPair(i, x) /\ ~series.nested) =>
                          /\ \A r \in 0..CallScale.rows :
                                grid[r][x + EffOffset] \notin Joining(i)
                          /\ Cardinality(ws) <= 1
                      /\ (isnan(At(s, x)) /\ isnan(At(s, x + 1)) /\ ~series.nested) =>
                          /\ Inked(x) = {}
                          /\ ws = {}

\* [1,2,3,4,NaN,4,3,2,1]: the edge before the gap is in the column of the 4
C11_Witness ==
    /\ pc = "plot" /\ series = Flat(Doc1) /\ DOMAIN cfg = {}
    /\ Returned /\ BeforeGap(0, 3)
    /\ RetLines[1][11 + 3 + 1] = "<"
    /\ Inked(3) = {0}

----------------------------------------------------------------------------
(* C12: clamping to min and max *)

\* the bound nearest to the sample d, or d itself within [min, max]
Nearest(d) == IF RLt(d, EffMin) THEN EffMin ELSE IF RLt(EffMax, d) THEN EffMax ELSE d

\* the row, from the top, of a sample equal to v with min <= v <= max
RowOf(v) == CallScale.rows - (round(RMul(v, EffRatio)) - floor(RMul(EffMin, EffRatio)))

\* something is written on row r of plot column x
InkAt(r, x) ==
    LET ws == CallWrites
    IN  \E k \in 1..Len(ws) : ws[k].r = r /\ ws[k].c = x + EffOffset

\* the samples of series i that plot draws: all in point mode, all but the last
\* and those before a gap in line mode (the latter are drawn by their edge)
Drawn(i, x) ==
    /\ _isnum(At(At(series.data, i), x))
    /\ LineMode(i) => x < Len(At(series.data, i)) - 1

\* C12: when cfg gives min and/or max, a sample below min has the quantized row
\* of a sample equal to min and a sample above max that of a sample equal to max,
\* and that is the row where plot draws it; with min=2, max=3 on
\* [1,2,3,4,NaN,4,3,2,1] the values 1 and 4 are on the rows of 2 and 3.
C12_Clamped ==
    /\ (pc = "plot" /\ Returned /\ HasNumeric
            /\ ("min" \in DOMAIN cfg \/ "max" \in DOMAIN cfg))
        => \A i \in 0..(Len(series.data) - 1) :
             \A x \in 0..(Len(At(series.data, i)) - 1) :
                LET d == At(At(series.data, i), x)
                IN  _isnum(d) =>
                      /\ scaled(CallScale, d) = scaled(CallScale, Nearest(d))
                      /\ Drawn(i, x) => InkAt(RowOf(Nearest(d)), x)
                      /\ (i = 0 /\ x = 0) => InkAt(RowOf(Nearest(d)), -1)
    /\ (pc = "plot" /\ series = Flat(Doc1)
            /\ cfg = ("min" :> I(2)) @@ ("max" :> I(3)))
        => ret = Return(
              <<" ", " ", " ", " ", "3", ".", "0", "0", " ", " ", "T",
                " ", "r", "=", "<", ">", "=", "q", NL,
                " ", " ", " ", " ", "2", ".", "0", "0", " ", " ", "+",
                "=", "J", " ", " ", " ", " ", "L", "=">>)

\* min=2, max=3 on [1,2,3,4,NaN,4,3,2,1]: the 1 at index 0 is on the row of 2
\* and the 4 at index 3 on the row of 3
C12_Witness ==
    /\ pc = "plot" /\ series = Flat(Doc1)
    /\ cfg = ("min" :> I(2)) @@ ("max" :> I(3))
    /\ Returned /\ Len(RetLines) = 2
    /\ RLt(At(Items(series), 0), EffMin) /\ RLt(EffMax, At(Items(series), 3))
    /\ RowOf(I(2)) = 1 /\ RetLines[2][11 + 0 + 1] = "="
    /\ RowOf(I(3)) = 0 /\ RetLines[1][11 + 3 + 1] = "<"

----------------------------------------------------------------------------
(* C13: the rows of a chart of a given height *)

\* cfg gives a height h >= 1 and the bounds in force have max > min
HeightGiven ==
    /\ EverySeriesNumeric
    /\ "height" \in DOMAIN cfg /\ RLe(I(1), cfg["height"])
    /\ RLt(EffMin, EffMax)

IsWhole(v) == v.n % v.d = 0

----------------------------------------------------------------------------
(* C19: the quantization rule *)

\* v * ratio lies halfway between two integers
Tie(v) == LET p == RMul(v, EffRatio) IN (2 * p.n) % p.d = 0 /\ p.n % p.d # 0

\* the integer nearest to v, the even one of the two when v is halfway
NearestEven(v) ==
    LET lo == floor(v)
        twice == RSub(RMul(I(2), v), I(2 * lo))
    IN  IF RLt(twice, I(1)) THEN lo
        ELSE IF RLt(I(1), twice) THEN lo + 1
        ELSE IF lo % 2 = 0 THEN lo ELSE lo + 1

\* round(clamp(y, min, max) * ratio) - floor(min * ratio)
Quantized(y) ==
    NearestEven(RMul(Nearest(y), EffRatio)) - floor(RMul(EffMin, EffRatio))

\* the glyph of the point-mode series i
PointGlyph(i) ==
    colored(At(At(cfg["symbols"], i % Len(cfg["symbols"])).glyphs, 0), ColorOf(i))

\* C19: every numeric sample y is quantized to
\* round(clamp(y, min, max) * ratio) - floor(min * ratio), round taking a tie to
\* the even integer, and that is the row (counted from the bottom) of the tick
\* of the first sample, of the glyph of a point-mode sample, and of the flat
\* glyph or of the two corners of a line-mode pair.
C19_Quantized ==
    (pc = "plot" /\ Returned /\ HasNumeric)
        => \A i \in 0..(Len(series.data) - 1) :
             \A x \in 0..(Len(At(series.data, i)) - 1) :
                LET s == At(series.data, i)
                    d == At(s, x)
                    row == CallScale.rows - Quantized(d)
                IN  _isnum(d) =>
                      /\ scaled(CallScale, d) = Quantized(d)
                      /\ (i = 0 /\ x = 0) =>
                            Written(W(row, EffOffset - 1, <<"+">>))
                      /\ ~LineMode(i) => Written(W(row, x + EffOffset, PointGlyph(i)))
                      /\ (LineMode(i) /\ x < Len(s) - 1 /\ _isnum(At(s, x + 1))) =>
                            LET row1 == CallScale.rows - Quantized(At(s, x + 1))
                                up == colored(IF row1 < row THEN "J" ELSE "q", ColorOf(i))
                                to == colored(IF row1 < row THEN "r" ELSE "L", ColorOf(i))
                            IN  IF row = row1
                                THEN Written(W(row, x + EffOffset, colored("=", ColorOf(i))))
                                ELSE /\ Written(W(row, x + EffOffset, up))
                                     /\ Written(W(row1, x + EffOffset, to))

\* a sample halfway between two rows, drawn on the even one below it
C19_Witness ==
    /\ pc = "plot" /\ Returned /\ ~series.nested /\ Len(Items(series)) = 2
    /\ LineMode(0) /\ "height" \in DOMAIN cfg
    /\ LET d == At(Items(series), 0)
       IN  /\ _isnum(d) /\ _isnum(At(Items(series), 1))
           /\ Tie(Nearest(d))
           /\ Quantized(d) = floor(RMul(Nearest(d), EffRatio))
                                 - floor(RMul(EffMin, EffRatio))
           /\ CallGrid[CallScale.rows - Quantized(d)][EffOffset - 1] = <<"+">>
           /\ Inked(0) # {}

----------------------------------------------------------------------------
(* C20: the axis column *)

\* the value that the label of row k, counted from the top, stands for
LabelValue(k) ==
    RSub(EffMax, RDiv(RMul(I(k), RSub(EffMax, EffMin)),
                      I(IF CallScale.rows # 0 THEN CallScale.rows ELSE 1)))

\* row k holds the tick of the first sample of the first series
FirstSampleRow(k) ==
    LET d0 == At(At(series.data, 0), 0)
    IN  _isnum(d0) /\ k = CallScale.rows - Quantized(d0)

\* C20: in the axis column, left of the first plot column, the row whose label
\* value is zero carries the axis glyph and every other row the tick glyph,
\* apart from the row of the first sample of the first series (for max > min).
C20_Original ==
    (pc = "plot" /\ Returned /\ HasNumeric /\ RLt(EffMin, EffMax))
        => \A k \in 0..CallScale.rows :
              ~FirstSampleRow(k) =>
                  CallGrid[k][EffOffset - 1] =
                      <<IF REq(LabelValue(k), I(0)) THEN "+" ELSE "T">>

----------------------------------------------------------------------------
(* C21: the top line is the maximum, the bottom line the minimum *)

\* a label with the value v is written on row r
LabelAt(r, v) ==
    LET ws == CallWrites
    IN  \E k \in 1..Len(ws) :
            ws[k].r = r /\ ws[k].s = Format(CallScale.placeholder, v)

\* C21: the top line of the chart is labelled max and every drawn sample equal
\* to or above max is on it; the bottom line is labelled min and every drawn
\* sample equal to or below min is on it (for max > min, whatever the bounds).
C21_Original ==
    (pc = "plot" /\ Returned /\ HasNumeric /\ RLt(EffMin, EffMax))
        => /\ LabelAt(0, EffMax)
           /\ LabelAt(CallScale.rows, EffMin)
           /\ \A i \in 0..(Len(series.data) - 1) :
                \A x \in 0..(Len(At(series.data, i)) - 1) :
                  LET d == At(At(series.data, i), x)
                  IN  (_isnum(d) /\ Drawn(i, x)) =>
                        /\ RLe(EffMax, d) => InkAt(0, x)
                        /\ RLe(d, EffMin) => InkAt(CallScale.rows, x)

----------------------------------------------------------------------------

(* C22: two samples on different rows *)

\* the pair (x, x+1) of the line-mode series i has two present samples on
\* different rows
Step(i, x) ==
    LET s == At(series.data, i)
    IN  /\ LineMode(i) /\ x < Len(s) - 1
        /\ _isnum(At(s, x)) /\ _isnum(At(s, x + 1))
        /\ Quantized(At(s, x)) # Quantized(At(s, x + 1))

\* C22: for a pair of present samples of a line-mode series on different rows
\* y0 (left) and y1 (right), plot writes in the left sample's column 'q' (╮) on
\* the left row and 'L' (╰) on the right row when descending, 'J' (╯) on the
\* left row and 'r' (╭) on the right row when ascending, and '|' (│) on every
\* row strictly between; in a chart of one series these are the only cells of
\* the column that are not blank.
C22_Corners ==
    (pc = "plot" /\ Returned /\ HasNumeric)
        => \A i \in 0..(Len(series.data) - 1) :
             \A x \in 0..(Len(At(series.data, i)) - 2) :
                Step(i, x) =>
                  LET s == At(series.data, i)
                      y0 == Quantized(At(s, x))
                      y1 == Quantized(At(s, x + 1))
                      lo == IF y0 < y1 THEN y0 ELSE y1
                      hi == IF y0 < y1 THEN y1 ELSE y0
                      rows == CallScale.rows
                      col == x + EffOffset
                      grid == CallGrid
                      left == colored(IF y0 > y1 THEN "q" ELSE "J", ColorOf(i))
                      right == colored(IF y0 > y1 THEN "L" ELSE "r", ColorOf(i))
                      fill == colored("|", ColorOf(i))
                  IN  /\ Written(W(rows - y0, col, left))
                      /\ Written(W(rows - y1, col, right))
                      /\ \A y \in (lo + 1)..(hi - 1) : Written(W(rows - y, col, fill))
                      /\ Len(series.data) = 1 =>
                            /\ grid[rows - y0][col] = left
                            /\ grid[rows - y1][col] = right
                            /\ \A y \in (lo + 1)..(hi - 1) : grid[rows - y][col] = fill
                            /\ Inked(x) = {rows - y : y \in lo..hi}

\* [1, 3]: '╯' on the row of 1, '│' on the row of 2, '╭' on the row of 3
C22_Witness ==
    /\ pc = "plot" /\ Returned /\ series = Flat(<<I(1), I(3)>>)
    /\ LineMode(0) /\ Step(0, 0) /\ EffOffset = 3 /\ CallScale.rows = 2
    /\ CallGrid[2][3] = <<"J">> /\ CallGrid[1][3] = <<"|">> /\ CallGrid[0][3] = <<"r">>
    /\ Inked(0) = {0, 1, 2}

----------------------------------------------------------------------------

(* C23: a series drawn with a single glyph *)

\* the cell of the point-mode sample x of series i
PointCell(i, x) ==
    W(CallScale.rows - Quantized(At(At(series.data, i), x)), x + EffOffset,
      PointGlyph(i))

\* C23: for a series whose symbol set has exactly one glyph, plot writes that
\* glyph, in the series' colour, for every present sample (the last included)
\* at the sample's column and quantized row and nothing else: the series' loop
\* writes one cell per present sample, and in a chart of that series alone the
\* column of a present sample holds the glyph on its row only and the column
\* of a missing sample is blank.
C23_PointMode ==
    (pc = "plot" /\ Returned /\ HasNumeric)
        => \A i \in 0..(Len(series.data) - 1) :
             ~LineMode(i) =>
               LET s == At(series.data, i)
                   sw == SeriesWrites(CallScale, series.data, cfg, i)
                   grid == CallGrid
               IN  /\ \A x \in 0..(Len(s) - 1) :
                         /\ _isnum(At(s, x)) =>
                              /\ Written(PointCell(i, x))
                              /\ \E k \in 1..Len(sw) : sw[k] = PointCell(i, x)
                         /\ Len(series.data) = 1 =>
                              IF _isnum(At(s, x))
                              THEN /\ Inked(x) = {PointCell(i, x).r}
                                   /\ grid[PointCell(i, x).r][x + EffOffset] = PointGlyph(i)
                              ELSE Inked(x) = {}
                   /\ \A k \in 1..Len(sw) :
                         \E x \in 0..(Len(s) - 1) :
                             _isnum(At(s, x)) /\ sw[k] = PointCell(i, x)
                   /\ Len(sw) = Len(SelectSeq(s, _isnum))

\* [NaN, 2, 0.5] drawn with 'o': nothing in the first column, the last sample
\* on the bottom row
C23_Witness ==
    /\ pc = "plot" /\ Returned /\ series = Flat(<<NaN, I(2), R(1, 2)>>)
    /\ ~LineMode(0) /\ "colors" \notin DOMAIN cfg /\ EffOffset = 4
    /\ "min" \notin DOMAIN cfg
    /\ Inked(0) = {} /\ Inked(1) = {0} /\ Inked(2) = {CallScale.rows}
    /\ CallGrid[CallScale.rows][2 + 4] = <<"o">>

----------------------------------------------------------------------------

(* C24: a point over an earlier series *)

\* the grid after the axis, the tick and the series before series j (from 0)
GridBefore(j) ==
    Grid(CallScale,
         AxisWrites(CallScale) \o TickWrites(CallScale, series.data)
         \o Concat([k \in 1..j |-> SeriesWrites(CallScale, series.data, cfg, k - 1)]))

\* the cells that the series before series j have drawn
DrawnBefore(j) ==
    LET ws == Concat([k \in 1..j |-> SeriesWrites(CallScale, series.data, cfg, k - 1)])
    IN  {<<ws[k].r, ws[k].c>> : k \in 1..Len(ws)}

----------------------------------------------------------------------------

(* C25: the legend *)

\* the glyph that stands for series i: its single glyph, or the flat line
SeriesGlyph(i) ==
    IF LineMode(i) THEN "="
    ELSE At(At(cfg["symbols"], i % Len(cfg["symbols"])).glyphs, 0)

\* the legend line of series i with the text t: glyph twice in plot's colour
LegendOf(i, t) ==
    (IF ColorOf(i) = None THEN <<SeriesGlyph(i), SeriesGlyph(i)>>
     ELSE <<ColorOf(i), SeriesGlyph(i), SeriesGlyph(i), reset>>)
    \o <<" ">> \o t

\* C25: with a legend, asciichart appends below the chart one line per legend
\* entry, in order, and line i shows the glyph of series i twice, in the colour
\* plot used for series i (colors[i mod len(colors)]), then the legend text.
C25_Original ==
    (pc = "asciichart" /\ Returned /\ ~legend.none)
        => LET chart == Len(SplitNL(plot(series, cfg).text))
               lines == RetLines
           IN  /\ Len(lines) = chart + Len(legend.items)
               /\ \A i \in 0..(Len(legend.items) - 1) :
                     i < Len(series.data) =>
                        lines[chart + i + 1] =
                            Spaces(indent) \o LegendOf(i, At(legend.items, i))

----------------------------------------------------------------------------

(* C26: the decimal points of the labels *)

\* the lines plot produced for the call, and the latest first decimal point
PlotLines == SplitNL(plot(series, cfg).text)
LatestDot(p) == SetMax({DotIndex(p[k]) : k \in 1..Len(p)})

\* line k of the text out is line k of p behind n spaces
Padded(out, p, k, n) == out[k] = Spaces(n) \o p[k]

\* C26 as stated: the first decimal point of every chart line that has one is
\* at the column of the latest decimal point among plot's lines, and the lines
\* without a decimal point are as plot made them.
C26_Original ==
    (pc = "asciichart" /\ Returned)
        => LET p == PlotLines
               out == RetLines
               latest == LatestDot(p)
           IN  \A k \in 1..Len(p) :
                  IF DotIndex(p[k]) # -1
                  THEN DotIndex(out[k]) = latest
                  ELSE out[k] = p[k]

\* C26: in the text asciichart returns, every chart line is plot's line behind
\* spaces; the first decimal point of every chart line that has one is at the
\* same column, indent plus the column of the latest decimal point among
\* plot's lines; a line without a decimal point is plot's line behind indent
\* spaces only; and aligning the aligned lines again changes nothing.
C26_Aligned ==
    (pc = "asciichart" /\ Returned)
        => LET p == PlotLines
               out == RetLines
               latest == LatestDot(p)
               once == fix_asciichart(p)
           IN  /\ \A k \in 1..Len(p) :
                    IF DotIndex(p[k]) # -1
                    THEN /\ DotIndex(out[k]) = indent + latest
                         /\ Padded(out, p, k, indent + latest - DotIndex(p[k]))
                    ELSE Padded(out, p, k, indent)
               /\ once.kind = "return"
               /\ fix_asciichart(SplitNL(once.text)) = once

\* the labels 100000.00 and 0.00: the second line is moved right by one
C26_Witness ==
    /\ pc = "asciichart" /\ Returned /\ series = Flat(<<I(0), I(100000)>>)
    /\ indent = 2 /\ Len(PlotLines) = 2
    /\ DotIndex(PlotLines[1]) = 6 /\ DotIndex(PlotLines[2]) = 5
    /\ DotIndex(RetLines[1]) = 8 /\ DotIndex(RetLines[2]) = 8
    /\ Padded(RetLines, PlotLines, 1, 2) /\ Padded(RetLines, PlotLines, 2, 3)

----------------------------------------------------------------------------

(* C28: the indices of the grid *)

\* min <= max, height >= 0, offset >= 1, and a first sample to read
ValidCfg ==
    /\ HasNumeric /\ RLe(EffMin, EffMax)
    /\ "height" \in DOMAIN cfg => cfg["height"].n >= 0
    /\ EffOffset >= 1
    /\ Len(series.data[1]) > 0

Longest == SetMax({Len(series.data[i]) : i \in 1..Len(series.data)})

----------------------------------------------------------------------------

(* fileio.py: new_filename and rename_to_temp *)

\* os.path.splitext(p): the extension starts at the last dot of the last path
\* component, unless only dots precede it there
splitext(p) ==
    LET sepIndex == SetMax({0} \cup {k \in 1..Len(p) : p[k] = "/"})
        dotIndex == SetMax({0} \cup {k \in 1..Len(p) : p[k] = "."})
    IN  IF dotIndex > sepIndex /\ \E k \in (sepIndex + 1)..(dotIndex - 1) : p[k] # "."
        THEN <<SubSeq(p, 1, dotIndex - 1), SubSeq(p, dotIndex, Len(p))>>
        ELSE <<p, <<>>>>

\* '{:04d}'.format(i), i >= 0
ZFill4(i) == LET d == Digits(i)
             IN  [k \in 1..(IF Len(d) < 4 THEN 4 - Len(d) ELSE 0) |-> "0"] \o d

LastIndex == 9999

\* the loop of new_filename from the index i on, over the existing files
RECURSIVE Probe(_, _, _, _, _)
Probe(prefix_, extension, flag_minimal, i, files) ==
    IF i = -1 /\ ~flag_minimal
    THEN Probe(prefix_, extension, flag_minimal, i + 1, files)
    ELSE LET name == IF i = -1
                     THEN IF extension # <<>> THEN prefix_ \o <<".">> \o extension
                                              ELSE prefix_
                     ELSE IF extension # <<>>
                          THEN prefix_ \o <<"-">> \o ZFill4(i) \o <<".">> \o extension
                          ELSE prefix_ \o <<"-">> \o ZFill4(i)
         IN  IF name \notin files THEN Return(name)
             ELSE IF i + 1 > LastIndex
                  THEN Raise("RuntimeError", "Could not make a new file name")
                  ELSE Probe(prefix_, extension, flag_minimal, i + 1, files)

\* new_filename(prefix, extension, flag_minimal), os.path.exists read from files
new_filename(prefix, extension, flag_minimal, files) ==
    LET ext == IF Len(extension) > 0 /\ extension[1] = "." THEN Tail(extension)
               ELSE extension
        prefix_ == IF prefix # <<>> /\ prefix[Len(prefix)] = "-"
                   THEN SubSeq(prefix, 1, Len(prefix) - 1) ELSE prefix
    IN  Probe(prefix_, ext, flag_minimal, -1, files)

Threads == 1..MaxThreads
IdleThread == [pc |-> "idle", filename |-> <<>>, new_name |-> <<>>, exc |-> ""]

\* the files of a run and the names that rename_to_temp is called with
FileA == <<"a", ".", "t">>
FileADash == <<"a", "-", ".", "t">>
FileA0 == <<"a", "-", "0", "0", "0", "0", ".", "t">>
FileB == <<"b">>
InitialFiles == {{FileA}, {FileA, FileADash}, {FileA, FileB}, {FileA, FileADash, FileB}}
FileArgs == {FileA, FileADash, FileA0, FileB}

\* a thread that takes the Lock without waiting for it
LockFree_Always == TRUE

\* "with _rename_to_temp_lock": the Lock can be acquired
LockFree == _rename_to_temp_lock = 0

\* a thread calls rename_to_temp(filename) and reaches the with statement
Call(t) ==
    /\ th[t].pc = "idle" /\ ncalls < MaxCalls
    /\ \E f \in FileArgs : th' = [th EXCEPT ![t] = [IdleThread EXCEPT !.pc = "lock",
                                                                   !.filename = f]]
    /\ ncalls' = ncalls + 1
    /\ UNCHANGED <<fs, _rename_to_temp_lock, returned>>

Acquire(t) ==
    /\ th[t].pc = "lock" /\ LockFree
    /\ _rename_to_temp_lock' = t
    /\ th' = [th EXCEPT ![t].pc = "new_filename"]
    /\ UNCHANGED <<fs, returned, ncalls>>

\* lines 209-212: splitext, the dot dropped, new_filename(root, ext)
NewFilename(t) ==
    /\ th[t].pc = "new_filename"
    /\ LET parts == splitext(th[t].filename)
           ext == IF Len(parts[2]) > 0 THEN Tail(parts[2]) ELSE parts[2]
           r == new_filename(parts[1], ext, TRUE, fs)
       IN  th' = [th EXCEPT ![t].pc = IF r.kind = "return" THEN "rename" ELSE "exit",
                            ![t].new_name = IF r.kind = "return" THEN r.text ELSE <<>>,
                            ![t].exc = IF r.kind = "return" THEN "" ELSE r.exc]
    /\ UNCHANGED <<fs, _rename_to_temp_lock, returned, ncalls>>

\* line 213: os.rename(filename, new_name)
OsRename(t) ==
    /\ th[t].pc = "rename"
    /\ IF th[t].filename \in fs
       THEN /\ fs' = (fs \ {th[t].filename}) \cup {th[t].new_name}
            /\ th' = [th EXCEPT ![t].pc = "exit"]
       ELSE /\ fs' = fs
            /\ th' = [th EXCEPT ![t].pc = "exit", ![t].exc = "FileNotFoundError"]
    /\ UNCHANGED <<_rename_to_temp_lock, returned, ncalls>>

\* the with block is left, by line 214 or by the exception: the Lock is released
Exit(t) ==
    /\ th[t].pc = "exit"
    /\ _rename_to_temp_lock' = 0
    /\ returned' = IF th[t].exc = ""
                   THEN Append(returned, [old |-> th[t].filename, new |-> th[t].new_name])
                   ELSE returned
    /\ th' = [th EXCEPT ![t] = IdleThread]
    /\ UNCHANGED <<fs, ncalls>>

InitRename ==
    /\ fs \in InitialFiles
    /\ _rename_to_temp_lock = 0
    /\ th = [t \in Threads |-> IdleThread]
    /\ returned = <<>>
    /\ ncalls = 0
    /\ PlotIdle /\ LoggerIdle /\ MenuIdle /\ ConfigIdle /\ SqliteIdle
    /\ CallerIdle /\ ParseIdle /\ DataIdle

NextRename ==
    /\ \E t \in Threads : Call(t) \/ Acquire(t) \/ NewFilename(t) \/ OsRename(t) \/ Exit(t)
    /\ UNCHANGED <<plotVars, loggerVars, menuVars, configVars, sqliteVars,
                   callerVars, parseVars, dataVars>>

SpecRename == InitRename /\ [][NextRename]_vars

----------------------------------------------------------------------------
(* C14: rename_to_temp among threads *)

\* the thread is between the choice of the name and the release of the Lock
InCritical(t) == th[t].pc \in {"new_filename", "rename", "exit"}

MutualExclusion ==
    \A t, u \in DOMAIN th : (t # u /\ InCritical(t)) => ~InCritical(u)

\* the name about to be given to the file is the name of no file, and of no
\* other call in progress
FreshName ==
    \A t \in DOMAIN th :
        th[t].pc = "rename" =>
            /\ th[t].new_name \notin fs
            /\ \A u \in DOMAIN th :
                  (u # t /\ th[u].pc \in {"rename", "exit"} /\ th[u].exc = "")
                      => th[u].new_name # th[t].new_name

\* C14 as stated: under every interleaving the choice of the name and the
\* rename of one call are not interleaved with those of another, no call renames
\* onto a name that exists, and every call that returns has a distinct name.
C14_Original ==
    /\ MutualExclusion
    /\ FreshName
    /\ \A i, j \in 1..Len(returned) : i # j => returned[i].new # returned[j].new

\* C14 amended: the choice of the name and the rename of one call are never
\* interleaved with those of another call, the name chosen is the name of no
\* file and of no other call in progress, and two calls return the same name
\* only when a call between them has renamed the file of that name away.
C14_ThreadSafe ==
    /\ MutualExclusion
    /\ FreshName
    /\ \A i, j \in 1..Len(returned) :
          (i < j /\ returned[i].new = returned[j].new)
              => \E k \in (i + 1)..(j - 1) : returned[k].old = returned[i].new

\* a name is returned a second time, while the other thread waits for the Lock
C14_Witness ==
    /\ Len(returned) = 2
    /\ returned[1].new = FileA0 /\ returned[2].old = FileA0
    /\ \E t, u \in DOMAIN th :
          /\ th[t].pc = "rename" /\ th[t].new_name = FileA0
          /\ th[u].pc = "lock"

----------------------------------------------------------------------------
(* loggingaux.py: the shared Python logger *)

logging_name == "a107"
LoggerNames == {None, "x"}

\* get_new_logger(name=name): the Logger made from the flags of a107 as they are
get_new_logger(name) ==
    [name |-> IF name = None THEN logging_name ELSE name,
     console |-> flag_log_console,
     file |-> flag_log_file]

\* a call that makes a logger every time
LoggerIsNone_Always == TRUE

\* "if _python_logger is None"
LoggerIsNone == _python_logger = 0

get_python_logger(name) ==
    /\ LoggerIsNone => Len(loggers) < MaxLoggers
    /\ IF LoggerIsNone
       THEN /\ loggers' = Append(loggers, get_new_logger(name))
            /\ _python_logger' = Len(loggers) + 1
            \* _get_fmtr(), called when a handler is added
            /\ _fmtr' = (_fmtr \/ flag_log_file \/ flag_log_console)
            /\ epoch' = [first |-> IF epoch.first = 0 THEN Len(loggers) + 1
                                   ELSE epoch.first,
                         made |-> epoch.made + 1]
       ELSE /\ UNCHANGED <<loggers, _python_logger, _fmtr>>
            /\ epoch' = [epoch EXCEPT !.first = IF epoch.first = 0 THEN _python_logger
                                                ELSE epoch.first]
    /\ lret' = _python_logger'
    /\ lop' = [op |-> "get", name |-> name]
    /\ UNCHANGED <<flag_log_console, flag_log_file>>

reset_logger ==
    /\ _python_logger' = 0
    /\ _fmtr' = FALSE
    /\ epoch' = [first |-> 0, made |-> 0]
    /\ lop' = [op |-> "reset", name |-> None]
    /\ UNCHANGED <<flag_log_console, flag_log_file, loggers, lret>>

\* the program assigns a107.flag_log_console and a107.flag_log_file
SetFlags ==
    /\ \E c, f \in BOOLEAN :
        /\ <<c, f>> # <<flag_log_console, flag_log_file>>
        /\ flag_log_console' = c
        /\ flag_log_file' = f
    /\ lop' = [op |-> "flags", name |-> None]
    /\ UNCHANGED <<_python_logger, _fmtr, loggers, lret, epoch>>

InitLogger ==
    /\ LoggerIdle
    /\ PlotIdle /\ RenameIdle /\ MenuIdle /\ ConfigIdle /\ SqliteIdle
    /\ CallerIdle /\ ParseIdle /\ DataIdle

NextLogger ==
    /\ \/ \E name \in LoggerNames : get_python_logger(name)
       \/ reset_logger
       \/ SetFlags
    /\ UNCHANGED <<plotVars, renameVars, menuVars, configVars, sqliteVars,
                   callerVars, parseVars, dataVars>>

SpecLogger == InitLogger /\ [][NextLogger]_vars

----------------------------------------------------------------------------
(* C15: one logger between two resets *)

\* C15: between two resets every get_python_logger returns the logger that the
\* first of them returned, get_new_logger runs at most once, and a call made
\* when the logger exists returns it and makes nothing, whatever its name
\* argument and whatever the flags of a107 have become.
C15_SameLogger ==
    /\ [](/\ epoch.made <= 1
          /\ lop.op = "get" => (lret # 0 /\ lret = epoch.first /\ lret = _python_logger)
          /\ epoch.first # 0 => (epoch.made = 1 /\ _python_logger = epoch.first))
    /\ [][(lop'.op = "get" /\ _python_logger # 0)
            => /\ lret' = _python_logger
               /\ UNCHANGED <<_python_logger, loggers, _fmtr>>]_vars

\* after a reset, a later call with another name and other flags returns the
\* logger as the first call since the reset made it
C15_Witness ==
    /\ lop = [op |-> "get", name |-> "x"]
    /\ Len(loggers) = 2 /\ lret = 2 /\ epoch = [first |-> 2, made |-> 1]
    /\ loggers[lret].name = logging_name
    /\ loggers[lret].console # flag_log_console
    /\ loggers[lret].file # flag_log_file

----------------------------------------------------------------------------
(* textinterface.py: menu *)

IsDigit(c) == c \in {"0", "1", "2", "3", "4", "5", "6", "7", "8", "9"}
DigitValue(c) == CHOOSE k \in 0..9 : DigitChar(k) = c

RECURSIVE lstrip(_)
lstrip(s) == IF s # <<>> /\ s[1] = " " THEN lstrip(Tail(s)) ELSE s

RECURSIVE DecimalValue(_)
DecimalValue(s) == IF s = <<>> THEN 0
                   ELSE 10 * DecimalValue(SubSeq(s, 1, Len(s) - 1)) + DigitValue(s[Len(s)])

\* int(s) for a str: blanks stripped, an optional sign, then digits; NoneInt
\* stands for ValueError
int(s) ==
    LET t == rstrip(lstrip(s))
        signed == t # <<>> /\ t[1] \in {"+", "-"}
        digits == IF signed THEN Tail(t) ELSE t
    IN  IF digits # <<>> /\ \A k \in 1..Len(digits) : IsDigit(digits[k])
        THEN SomeInt(IF signed /\ t[1] = "-" THEN 0 - DecimalValue(digits)
                     ELSE DecimalValue(digits))
        ELSE NoneInt

MaxTries == 10

\* what the user may type at a prompt
MenuInputs == {<<>>, <<"0">>, <<"1">>, <<"3">>, <<"-", "1">>, <<"x">>, <<" ", "2">>}

\* "min_allowed <= option <= num_options"
Allowed(n) == (IF flag_cancel THEN 0 ELSE 1) <= n /\ n <= num_options

\* line 381: the menu is printed and s_option = input('? '); n_try = 0
OuterInput ==
    /\ mpc = "outer"
    /\ \E s \in MenuInputs : s_option' = s
    /\ n_try' = 0
    /\ mpc' = "inner"
    /\ UNCHANGED <<num_options, flag_allow_empty, flag_cancel, option, flag_ok,
                   rejected, mret>>

\* lines 389-407 and 410-412: one turn of the inner loop up to the next prompt,
\* the end of the loop or the return
InnerTurn ==
    /\ mpc = "inner"
    /\ IF n_try >= MaxTries
       THEN /\ mpc' = IF flag_ok THEN "done" ELSE "outer"
            /\ mret' = IF flag_ok THEN option ELSE mret
            /\ UNCHANGED <<option, flag_ok, n_try, rejected>>
       ELSE IF Len(s_option) = 0 /\ flag_allow_empty
       THEN /\ flag_ok' = TRUE
            /\ mpc' = "done"
            /\ mret' = option
            /\ UNCHANGED <<option, n_try, rejected>>
       ELSE LET v == int(s_option)
            IN  IF ~v.none /\ Allowed(v.val)
                THEN /\ option' = v
                     /\ flag_ok' = TRUE
                     /\ mpc' = "done"
                     /\ mret' = v
                     /\ UNCHANGED <<n_try, rejected>>
                ELSE /\ option' = IF v.none THEN option ELSE v
                     /\ rejected' = IF v.none THEN rejected ELSE rejected \cup {v.val}
                     /\ n_try' = n_try + 1
                     /\ mpc' = "input"
                     /\ UNCHANGED <<flag_ok, mret>>
    /\ UNCHANGED <<num_options, flag_allow_empty, flag_cancel, s_option>>

\* line 408: s_option = input("? ")
InnerInput ==
    /\ mpc = "input"
    /\ \E s \in MenuInputs : s_option' = s
    /\ mpc' = "inner"
    /\ UNCHANGED <<num_options, flag_allow_empty, flag_cancel, option, flag_ok,
                   n_try, rejected, mret>>

\* lines 369-371: menu(title, options, flag_allow_empty=..., flag_cancel=...)
InitMenu ==
    /\ num_options \in 1..MaxOptions
    /\ flag_allow_empty \in BOOLEAN
    /\ flag_cancel \in BOOLEAN
    /\ mpc = "outer" /\ option = NoneInt /\ flag_ok = FALSE /\ n_try = 0
    /\ s_option = <<>> /\ rejected = {} /\ mret = NoneInt
    /\ PlotIdle /\ RenameIdle /\ LoggerIdle /\ ConfigIdle /\ SqliteIdle
    /\ CallerIdle /\ ParseIdle /\ DataIdle

NextMenu ==
    /\ OuterInput \/ InnerTurn \/ InnerInput
    /\ UNCHANGED <<plotVars, renameVars, loggerVars, configVars, sqliteVars,
                   callerVars, parseVars, dataVars>>

SpecMenu == InitMenu /\ [][NextMenu]_vars

----------------------------------------------------------------------------
(* C16: what menu returns *)

\* C16: menu returns None only when flag_allow_empty is set and the input
\* accepted is empty, and otherwise an integer from (0 if flag_cancel else 1) to
\* len(options), never a number refused before as out of range.
C16_Original ==
    mpc = "done"
        => IF mret.none THEN flag_allow_empty /\ s_option = <<>>
           ELSE /\ (IF flag_cancel THEN 0 ELSE 1) <= mret.val
                /\ mret.val <= num_options
                /\ mret.val \notin rejected

----------------------------------------------------------------------------
(* config.py: AAConfigObj, over the dict of a ConfigObj; conversion.py: to_bool *)

\* the values of items: bool, int, float (a rational), str and list; a section
VBool(b) == [t |-> "bool", n |-> IF b THEN 1 ELSE 0, d |-> 1, s |-> <<>>]
VInt(n) == [t |-> "int", n |-> n, d |-> 1, s |-> <<>>]
VFloat(n, d) == [t |-> "float", n |-> n, d |-> d, s |-> <<>>]
VStr(s) == [t |-> "str", n |-> 0, d |-> 1, s |-> s]
VList(s) == [t |-> "list", n |-> 0, d |-> 1, s |-> s]
VSection == [t |-> "section", n |-> 0, d |-> 1, s |-> <<>>]

Found(v) == [kind |-> "return", val |-> v]

\* str.upper(), on the letters that to_bool looks for and the digits
Upper(c) ==
    CASE c = "t" -> "T" [] c = "r" -> "R" [] c = "u" -> "U" [] c = "e" -> "E"
      [] c = "o" -> "O" [] c = "n" -> "N" [] c = "f" -> "F" [] c = "a" -> "A"
      [] c = "l" -> "L" [] c = "s" -> "S" [] c = "b" -> "B" [] c = "c" -> "C"
      [] OTHER -> c

\* a107.to_bool(x), conversion.py lines 74-85
to_bool(x) ==
    IF x.t = "bool" THEN Found(x)
    ELSE IF x.t \in {"int", "float"} THEN Found(VBool(x.n # 0))
    ELSE IF x.t = "str"
    THEN LET u == [k \in 1..Len(x.s) |-> Upper(x.s[k])]
         IN  IF u \in {<<"T">>, <<"T", "R", "U", "E">>, <<"O", "N">>, <<"1">>}
             THEN Found(VBool(TRUE))
             ELSE IF u \in {<<"F">>, <<"F", "A", "L", "S", "E">>, <<"O", "F", "F">>, <<"0">>}
             THEN Found(VBool(FALSE))
             ELSE Raise("ValueError", "I don't understand as a logical value")
    ELSE Raise("AttributeError", "no attribute 'upper'")

\* int(x): truncation for a float, parsing for a str
ToInt(x) ==
    IF x.t \in {"bool", "int"} THEN Found(VInt(x.n))
    ELSE IF x.t = "float"
    THEN Found(VInt(IF x.n >= 0 THEN x.n \div x.d ELSE 0 - ((0 - x.n) \div x.d)))
    ELSE IF x.t = "str"
    THEN LET v == int(x.s)
         IN  IF v.none THEN Raise("ValueError", "invalid literal for int()")
             ELSE Found(VInt(v.val))
    ELSE Raise("TypeError", "int() argument must be a string or a number")

Pow10(k) == IF k = 0 THEN 1 ELSE IF k = 1 THEN 10 ELSE IF k = 2 THEN 100 ELSE 1000

\* float(x): for a str, blanks stripped, an optional sign, digits with at most
\* one point
ToFloat(x) ==
    IF x.t \in {"bool", "int"} THEN Found(VFloat(x.n, 1))
    ELSE IF x.t = "float" THEN Found(x)
    ELSE IF x.t = "str"
    THEN LET t == rstrip(lstrip(x.s))
             signed == t # <<>> /\ t[1] \in {"+", "-"}
             body == IF signed THEN Tail(t) ELSE t
             points == {k \in 1..Len(body) : body[k] = "."}
             digits == SelectSeq(body, IsDigit)
             frac == IF points = {} THEN 0 ELSE Len(body) - SetMax(points)
             q == R(DecimalValue(digits), Pow10(frac))
             v == RDiv(q, I(1))
         IN  IF /\ digits # <<>> /\ Cardinality(points) <= 1 /\ frac <= 3
                /\ Len(digits) + Cardinality(points) = Len(body)
             THEN Found(VFloat(IF signed /\ t[1] = "-" THEN 0 - v.n ELSE v.n, v.d))
             ELSE Raise("ValueError", "could not convert string to float")
    ELSE Raise("TypeError", "float() argument must be a string or a real number")

\* lines 64-70: the value retrieved, in the type of the default
ConvertLike(x, default) ==
    IF default.t = "bool" THEN to_bool(x)
    ELSE IF default.t = "int" THEN ToInt(x)
    ELSE IF default.t = "float" THEN ToFloat(x)
    ELSE Found(x)

\* s.split(sep)
RECURSIVE split(_, _)
split(s, sep) ==
    IF \A k \in 1..Len(s) : s[k] # sep THEN <<s>>
    ELSE LET k == SetMin({j \in 1..Len(s) : s[j] = sep})
         IN  <<SubSeq(s, 1, k - 1)>> \o split(SubSeq(s, k + 1, Len(s)), sep)

\* a path argument: a str or a list of names
PathStr(text) == [str |-> TRUE, text |-> text, parts |-> <<>>]
PathList(parts) == [str |-> FALSE, text |-> <<>>, parts |-> parts]

\* lines 24-27: the path as a list of names
PathOf(path_) ==
    IF path_.str
    THEN LET p == split(rstrip(lstrip(path_.text)), "/")
         IN  IF p[1] = <<>> THEN Tail(p) ELSE p
    ELSE path_.parts

\* lines 29-35 from the section cur on: every name but the last is entered,
\* and created when missing; an item met on the way is entered like a section
RECURSIVE Enter(_, _, _)
Enter(tr, cur, names) ==
    IF Len(names) <= 1
    THEN [kind |-> "return", tree |-> tr, section |-> cur, scalar |-> FALSE]
    ELSE LET q == Append(cur, Head(names))
         IN  IF q \notin DOMAIN tr
             THEN Enter((q :> VSection) @@ tr, q, Tail(names))
             ELSE IF tr[q].t = "section" THEN Enter(tr, q, Tail(names))
             ELSE IF Len(names) = 2
             THEN [kind |-> "return", tree |-> tr, section |-> q, scalar |-> TRUE]
             ELSE [kind |-> "raise", tree |-> tr, section |-> q, scalar |-> TRUE]

_get_section(tr, path_) == Enter(tr, <<>>, PathOf(path_))

\* the paths at and below p
Below(tr, p) ==
    {q \in DOMAIN tr : Len(q) >= Len(p) /\ SubSeq(q, 1, Len(p)) = p}

\* section[key] = value for the item or section at p
SetItem(tr, p, value) ==
    LET keep == DOMAIN tr \ Below(tr, p)
    IN  (p :> value) @@ [q \in keep |-> tr[q]]

\* an item that is never found
HasKey_Never(tr, p) == FALSE

\* "key in section", for the key at path p
HasKey(tr, p) == p \in DOMAIN tr

\* AAConfigObj.set(path_, value): [tree, written, ret]
set(tr, path_, value) ==
    LET g == _get_section(tr, path_)
        names == PathOf(path_)
    IN  IF g.kind = "raise" \/ g.scalar
        THEN [tree |-> g.tree, written |-> FALSE,
              ret |-> Raise("TypeError", "not subscriptable / no item assignment")]
        ELSE IF names = <<>>
        THEN [tree |-> g.tree, written |-> FALSE, ret |-> Raise("IndexError", ListIndex)]
        ELSE [tree |-> SetItem(g.tree, Append(g.section, names[Len(names)]), value),
              written |-> TRUE, ret |-> Found(value)]

\* AAConfigObj.get(path_, default): [tree, written, ret]
get(tr, path_, default) ==
    LET g == _get_section(tr, path_)
        names == PathOf(path_)
    IN  IF g.kind = "raise"
        THEN [tree |-> g.tree, written |-> FALSE,
              ret |-> Raise("TypeError", "not subscriptable")]
        ELSE IF names = <<>>
        THEN [tree |-> g.tree, written |-> FALSE, ret |-> Raise("IndexError", ListIndex)]
        ELSE IF g.scalar
        THEN [tree |-> g.tree, written |-> FALSE,
              ret |-> Raise("TypeError", "not iterable / bad index / no item assignment")]
        ELSE LET p == Append(g.section, names[Len(names)])
             IN  IF ~HasKey(g.tree, p)
                 THEN [set(g.tree, PathList(names), default) EXCEPT !.ret = Found(default)]
                 ELSE [tree |-> g.tree, written |-> FALSE,
                       ret |-> ConvertLike(g.tree[p], default)]

\* the arguments of the calls
NameA == <<"a">>
NameS == <<"s">>
ConfigPaths == {PathStr(<<"a">>), PathStr(<<"s">>), PathStr(<<"/", "s", "/", "a">>),
                PathStr(<<" ", "s", "/", "b">>), PathList(<<NameS, NameA>>)}
ConfigValues == {VBool(TRUE), VInt(7), VFloat(5, 2), VStr(<<"7">>), VStr(<<"o", "n">>)}

VMissing == [t |-> "missing", n |-> 0, d |-> 1, s |-> <<>>]

Get ==
    \E path_ \in ConfigPaths, default \in ConfigValues :
        LET r == get(tree, path_, default)
        IN  /\ tree' = r.tree
            /\ cfile' = IF r.written THEN r.tree ELSE cfile
            /\ cret' = r.ret
            /\ clast' = [op |-> "get", path |-> PathOf(path_), value |-> default,
                         was |-> tree]

Set ==
    \E path_ \in ConfigPaths, value \in ConfigValues :
        LET r == set(tree, path_, value)
        IN  /\ tree' = r.tree
            /\ cfile' = IF r.written THEN r.tree ELSE cfile
            /\ cret' = r.ret
            /\ clast' = [op |-> "set", path |-> PathOf(path_), value |-> value,
                         was |-> tree]

InitConfig ==
    /\ ConfigIdle
    /\ PlotIdle /\ RenameIdle /\ LoggerIdle /\ MenuIdle /\ SqliteIdle
    /\ CallerIdle /\ ParseIdle /\ DataIdle

NextConfig ==
    /\ Get \/ Set
    /\ UNCHANGED <<plotVars, renameVars, loggerVars, menuVars, sqliteVars,
                   callerVars, parseVars, dataVars>>

SpecConfig == InitConfig /\ [][NextConfig]_vars

----------------------------------------------------------------------------
(* C17: get stores the default once *)

\* what the path of the last call held before the call
Before == IF clast.path \in DOMAIN clast.was THEN clast.was[clast.path] ELSE VMissing

\* a name of the path before the last one named an item, not a section
Blocked ==
    \E k \in 1..(Len(clast.path) - 1) :
        /\ SubSeq(clast.path, 1, k) \in DOMAIN clast.was
        /\ clast.was[SubSeq(clast.path, 1, k)].t # "section"

\* every name of the path before the last one names a section
SectionsMade ==
    \A k \in 1..(Len(clast.path) - 1) :
        /\ SubSeq(clast.path, 1, k) \in DOMAIN tree
        /\ tree[SubSeq(clast.path, 1, k)].t = "section"

Expected(x, t) ==
    CASE t = "str" -> Found(x)
      [] t = "bool" /\ x = VStr(<<"7">>) ->
            Raise("ValueError", "I don't understand as a logical value")
      [] t = "bool" /\ x # VStr(<<"7">>) -> Found(VBool(TRUE))
      [] t = "int" /\ x = VBool(TRUE) -> Found(VInt(1))
      [] t = "int" /\ x \in {VInt(7), VStr(<<"7">>)} -> Found(VInt(7))
      [] t = "int" /\ x = VFloat(5, 2) -> Found(VInt(2))
      [] t = "int" /\ x = VStr(<<"o", "n">>) ->
            Raise("ValueError", "invalid literal for int()")
      [] t = "float" /\ x = VBool(TRUE) -> Found(VFloat(1, 1))
      [] t = "float" /\ x \in {VInt(7), VStr(<<"7">>)} -> Found(VFloat(7, 1))
      [] t = "float" /\ x = VFloat(5, 2) -> Found(x)
      [] t = "float" /\ x = VStr(<<"o", "n">>) ->
            Raise("ValueError", "could not convert string to float")

----------------------------------------------------------------------------
(* filesqlite.py: FileSQLite.create_database *)

NoFile == [exists |-> FALSE, tables |-> 0, rows |-> 0]
Closed == [open |-> FALSE, tables |-> 0, rows |-> 0]

is_memory == path = ":memory:"

\* the conn property (lines 22-39) on the state st = [dbfile, conn]:
\* sqlite3.connect makes an empty file when there is none at path
Connect(st) ==
    IF st.conn.open THEN st
    ELSE [dbfile |-> IF is_memory THEN st.dbfile
                     ELSE [st.dbfile EXCEPT !.exists = TRUE],
          conn |-> [open |-> TRUE, tables |-> 0, rows |-> 0]]

\* the tables of the database that the connection sees
Tables(st) == IF is_memory THEN st.conn.tables ELSE st.dbfile.tables

\* Cursor.rowcount of a SELECT statement: sqlite3 gives -1
rowcount(st) == -1

\* line 85, f_exists(): [exists, st]; self.conn is opened for ':memory:'
f_exists(st) ==
    IF is_memory
    THEN [exists |-> rowcount(Connect(st)) > 0, st |-> Connect(st)]
    ELSE [exists |-> st.dbfile.exists, st |-> st]

\* self.close(), and os.unlink(self.path) for a file
Delete(st) ==
    [dbfile |-> IF is_memory THEN st.dbfile ELSE NoFile, conn |-> Closed]

\* conn.execute("create table ..."): [st, raised]
CreateTable(st) ==
    LET c == Connect(st)
    IN  IF Tables(c) > 0 THEN [st |-> c, raised |-> "OperationalError"]
        ELSE [st |-> IF is_memory THEN [c EXCEPT !.conn.tables = 1]
                     ELSE [c EXCEPT !.dbfile.tables = 1],
              raised |-> ""]

\* _do_create_database of the subclass: [st, raised]
_do_create_database(st) ==
    CASE impl = "noop" -> [st |-> st, raised |-> ""]
      [] impl = "create" -> CreateTable(st)
      [] impl = "raise" -> [st |-> st, raised |-> "RuntimeError"]
      [] impl = "create_raise" ->
            LET r == CreateTable(st)
            IN  [r EXCEPT !.raised = IF r.raised = "" THEN "RuntimeError" ELSE r.raised]

\* create_database(flag_overwrite): [st, ret, called, raised]
create_database(st, flag_overwrite) ==
    LET e1 == f_exists(st)
    IN  IF ~(~e1.exists \/ flag_overwrite)
        THEN [st |-> e1.st, ret |-> Found(None), called |-> 0, raised |-> FALSE]
        ELSE LET e2 == f_exists(e1.st)
                 s2 == IF e2.exists THEN Delete(e2.st) ELSE e2.st
                 r == _do_create_database(s2)
                 e3 == f_exists(r.st)
             IN  IF r.raised # ""
                 THEN [st |-> IF e3.exists THEN Delete(e3.st) ELSE e3.st,
                       ret |-> Raise(r.raised, ""), called |-> 1, raised |-> TRUE]
                 ELSE [st |-> Connect(r.st), ret |-> Found(None),
                       called |-> 1, raised |-> FALSE]

Impls == {"noop", "create", "raise", "create_raise"}

CreateDatabase ==
    \E flag_overwrite \in BOOLEAN :
        LET r == create_database([dbfile |-> dbfile, conn |-> conn], flag_overwrite)
        IN  /\ dbfile' = r.st.dbfile
            /\ conn' = r.st.conn
            /\ sret' = r.ret
            /\ slast' = [op |-> "create", flag_overwrite |-> flag_overwrite,
                         called |-> r.called, raised |-> r.raised,
                         before |-> [dbfile |-> dbfile, conn |-> conn]]
    /\ UNCHANGED <<path, impl>>

\* execute("insert into ...") and commit(), on a database that has its table
InsertRow ==
    /\ LET c == Connect([dbfile |-> dbfile, conn |-> conn])
       IN  /\ Tables(c) > 0
           /\ (IF is_memory THEN c.conn.rows ELSE c.dbfile.rows) < MaxRows
           /\ dbfile' = IF is_memory THEN c.dbfile
                        ELSE [c.dbfile EXCEPT !.rows = @ + 1]
           /\ conn' = IF is_memory THEN [c.conn EXCEPT !.rows = @ + 1] ELSE c.conn
    /\ sret' = NoCall
    /\ slast' = [op |-> "insert"]
    /\ UNCHANGED <<path, impl>>

\* close(), lines 78-80
Close ==
    /\ conn.open
    /\ conn' = Closed
    /\ sret' = NoCall
    /\ slast' = [op |-> "close"]
    /\ UNCHANGED <<path, impl, dbfile>>

InitSqlite ==
    /\ path \in {"file", ":memory:"}
    /\ impl \in Impls
    /\ dbfile \in IF path = "file"
                  THEN {NoFile} \cup {[exists |-> TRUE, tables |-> 1, rows |-> n] :
                                          n \in 0..MaxRows}
                  ELSE {NoFile}
    /\ conn = Closed
    /\ sret = NoCall /\ slast = [op |-> "none"]
    /\ PlotIdle /\ RenameIdle /\ LoggerIdle /\ MenuIdle /\ ConfigIdle
    /\ CallerIdle /\ ParseIdle /\ DataIdle

NextSqlite ==
    /\ CreateDatabase \/ InsertRow \/ Close
    /\ UNCHANGED <<plotVars, renameVars, loggerVars, menuVars, configVars,
                   callerVars, parseVars, dataVars>>

SpecSqlite == InitSqlite /\ [][NextSqlite]_vars

----------------------------------------------------------------------------
(* C18: create_database creates once *)

\* the database was there before the last call: the file, or the tables of the
\* open ':memory:' database
Existed ==
    IF is_memory THEN slast.before.conn.open /\ slast.before.conn.tables > 0
    ELSE slast.before.dbfile.exists

\* C18: create_database calls _do_create_database exactly when the database
\* does not exist or flag_overwrite is set; when the database exists and
\* flag_overwrite is False the database, file or ':memory:', is left as it was;
\* when _do_create_database raises, the exception propagates and no file is
\* left at path.
C18_Original ==
    slast.op = "create"
        => /\ slast.called = (IF ~Existed \/ slast.flag_overwrite THEN 1 ELSE 0)
           /\ (Existed /\ ~slast.flag_overwrite)
                => /\ dbfile = slast.before.dbfile
                   /\ conn.tables = slast.before.conn.tables
                   /\ conn.rows = slast.before.conn.rows
           /\ slast.raised => (sret.kind = "raise" /\ ~dbfile.exists)

----------------------------------------------------------------------------
(* asciichart.py: what a call does to the objects the caller passed *)

\* The caller's container q = [kind, nested, kinds, data]: a list or a tuple,
\* either of samples (nested FALSE, data = <<samples>>) or of sequences of
\* samples (nested TRUE, kinds[k] the kind of sequence k, data[k] its samples).

TupleAssign == "'tuple' object does not support item assignment"
NotReal == "must be real number, not tuple"

\* lines 67-69: each sequence of a list or tuple of sequences is replaced, in
\* the caller's container, by list(sequence); a tuple refuses the assignment
Convert(q) ==
    IF q.nested /\ Len(q.data) > 0
    THEN IF q.kind = "tuple" THEN [raised |-> TRUE, q |-> q]
         ELSE [raised |-> FALSE,
               q |-> [q EXCEPT !.kinds = [k \in 1..Len(q.kinds) |-> "list"]]]
    ELSE [raised |-> FALSE, q |-> q]

\* what plot sees of the container
SeriesOf(q) == [nested |-> q.nested, data |-> q.data]

\* cfg or {} / if cfg is None: cfg = {}
CfgOf(c) == IF c.none THEN EmptyCfg ELSE c.map

\* plot called on the container: a first element that is not a list makes plot
\* take the container for a series of samples (line 222) and isnan (223)
\* refuses a tuple
PlotOn(q, c) ==
    IF q.nested /\ Len(q.data) > 0 /\ q.kinds[1] # "list"
    THEN Raise("TypeError", NotReal)
    ELSE plot(SeriesOf(q), CfgOf(c))

\* asciichart called on the container, with the default maxlines, legend, indent
AsciichartOn(q, c) ==
    LET conv == Convert(q)
    IN  IF conv.raised THEN [q |-> conv.q, out |-> Raise("TypeError", TupleAssign)]
        ELSE [q |-> conv.q,
              out |-> asciichart(SeriesOf(conv.q), CfgOf(c), 100, LegendNone, 0)]

CallerData == {<<I(1), I(2)>>, <<I(2), I(1)>>}
CallerContainers ==
    {[kind |-> k, nested |-> FALSE, kinds |-> <<>>, data |-> <<d>>] :
        k \in {"list", "tuple"}, d \in {<<>>, <<NaN>>, <<I(1), I(2)>>}}
    \cup UNION {{[kind |-> k, nested |-> TRUE, kinds |-> ks, data |-> d] :
                    k \in {"list", "tuple"},
                    ks \in [1..n -> {"list", "tuple"}],
                    d \in [1..n -> CallerData]} : n \in 1..2}
CallerCfgs == {[none |-> TRUE, map |-> EmptyCfg], [none |-> FALSE, map |-> EmptyCfg],
               [none |-> FALSE, map |-> "height" :> I(1)]}

RenderAsciichart ==
    /\ Len(calls) < MaxRenders
    /\ \E r \in {AsciichartOn(sequences, acfg)} :
           /\ sequences' = r.q
           /\ calls' = Append(calls, [fn |-> "asciichart", before |-> sequences,
                                      cfg |-> acfg, out |-> r.out])
    /\ acfg' = acfg
    /\ UNCHANGED <<plotVars, renameVars, loggerVars, menuVars, configVars,
                   sqliteVars, parseVars, dataVars>>

RenderPlot ==
    /\ Len(calls) < MaxRenders
    /\ calls' = Append(calls, [fn |-> "plot", before |-> sequences,
                               cfg |-> acfg, out |-> PlotOn(sequences, acfg)])
    /\ UNCHANGED <<sequences, acfg>>
    /\ UNCHANGED <<plotVars, renameVars, loggerVars, menuVars, configVars,
                   sqliteVars, parseVars, dataVars>>

InitCaller ==
    /\ sequences \in CallerContainers
    /\ acfg \in CallerCfgs
    /\ calls = <<>>
    /\ PlotIdle /\ RenameIdle /\ LoggerIdle /\ MenuIdle /\ ConfigIdle
    /\ SqliteIdle /\ ParseIdle /\ DataIdle

NextCaller == RenderAsciichart \/ RenderPlot

SpecCaller == InitCaller /\ [][NextCaller]_vars

----------------------------------------------------------------------------
(* C27: a call leaves its inputs alone *)

\* the container as it was when the first call was made
Passed == IF calls = <<>> THEN sequences ELSE calls[1].before

\* C27: asciichart and plot leave the caller's container, each series in it
\* and the cfg unchanged (same elements, same element kinds, same keys), and
\* two calls of the same function with equal inputs give equal outcomes.
C27_Original ==
    /\ sequences = Passed
    /\ \A k \in 1..Len(calls) : calls[k].cfg = acfg
    /\ \A a, b \in 1..Len(calls) :
          (calls[a].fn = calls[b].fn /\ calls[a].before = calls[b].before
                /\ calls[a].cfg = calls[b].cfg)
              => calls[a].out = calls[b].out

----------------------------------------------------------------------------
(* statementparsing.py: str2args *)

BSL == "\\"
QUOTES == {"\"", "'"}
Alphabet == {"a", " ", "=", BSL} \cup QUOTES
Statements == UNION {[1..n -> Alphabet] : n \in 0..MaxStatement}

\* part.replace("\\\\", QBERT).replace("\\", "").replace(QBERT, "\\"): a pair
\* of backslashes becomes one, a single backslash goes
RECURSIVE Unescape(_)
Unescape(p) ==
    IF p = <<>> THEN <<>>
    ELSE IF Len(p) >= 2 /\ p[1] = BSL /\ p[2] = BSL
    THEN <<BSL>> \o Unescape(SubSeq(p, 3, Len(p)))
    ELSE IF p[1] = BSL THEN Unescape(Tail(p))
    ELSE <<p[1]>> \o Unescape(Tail(p))

\* StatementError(sargs, i, text); text is the message after errorpart()
StatementError(text) ==
    [kind |-> "raise", exc |-> "StatementError", statement |-> sargs,
     position |-> pos, text |-> text]
PopEmpty == [kind |-> "raise", exc |-> "IndexError", statement |-> <<>>,
             position |-> -1, text |-> "pop from empty list"]
Parsed(a, kw) == [kind |-> "return", args |-> a, kwargs |-> kw]

\* args.pop() of line 35 on an empty list
NoKey(a) == a = <<>>

\* new_arg() on the lists a, kw: [ok, args, kwargs, flags]
new_arg(a, kw) ==
    LET part == Unescape(SubSeq(sargs, bp + (IF quoting THEN 1 ELSE 0) + 1, pos))
    IN  IF flags.kwarg
        THEN IF NoKey(a) THEN [ok |-> FALSE, args |-> a, kwargs |-> kw, flags |-> flags]
             ELSE [ok |-> TRUE, args |-> SubSeq(a, 1, Len(a) - 1),
                   kwargs |-> [k \in DOMAIN kw \cup {a[Len(a)]} |->
                                  IF k = a[Len(a)] THEN part ELSE kw[k]],
                   flags |-> [flags EXCEPT !.kwarg = FALSE, !.inside = FALSE]]
        ELSE [ok |-> TRUE, args |-> Append(a, part), kwargs |-> kw,
              flags |-> [flags EXCEPT !.inside = FALSE]]

Running == pout = NoCall
ch == sargs[pos + 1]
Others == <<plotVars, renameVars, loggerVars, menuVars, configVars, sqliteVars,
            callerVars, dataVars>>

\* lines 54-57 and 88-89: the end of the statement
AtEnd ==
    /\ Running /\ pos = Len(sargs)
    /\ IF quoting
       THEN /\ pout' = StatementError("Unclosed quotation")
            /\ UNCHANGED <<args, kwargs, flags>>
       ELSE IF flags.inside
       THEN LET r == new_arg(args, kwargs)
            IN  /\ args' = r.args /\ kwargs' = r.kwargs /\ flags' = r.flags
                /\ pout' = IF r.ok THEN Parsed(r.args, r.kwargs) ELSE PopEmpty
       ELSE /\ pout' = Parsed(args, kwargs)
            /\ UNCHANGED <<args, kwargs, flags>>
    /\ UNCHANGED <<sargs, pos, quote, quoting, expecting_space, bp>>
    /\ UNCHANGED Others

\* lines 58-76 and 87: a character outside quotation marks
Unquoted ==
    /\ Running /\ pos < Len(sargs) /\ ~quoting
    /\ IF expecting_space /\ ch # " "
       THEN /\ pout' = StatementError("expecting space")
            /\ UNCHANGED <<pos, quote, quoting, expecting_space, flags, bp, args, kwargs>>
       ELSE IF ch = " " \/ (ch = "=" /\ ~flags.kwarg)
       THEN LET r == IF flags.inside THEN new_arg(args, kwargs)
                     ELSE [ok |-> TRUE, args |-> args, kwargs |-> kwargs, flags |-> flags]
            IN  /\ args' = r.args /\ kwargs' = r.kwargs
                /\ IF r.ok
                   THEN /\ flags' = IF ch = "=" THEN [r.flags EXCEPT !.kwarg = TRUE]
                                    ELSE r.flags
                        /\ pos' = pos + 1 /\ pout' = pout
                   ELSE /\ flags' = r.flags /\ pos' = pos /\ pout' = PopEmpty
                /\ expecting_space' = FALSE
                /\ UNCHANGED <<quote, quoting, bp>>
       ELSE IF ch = "="
       THEN /\ pout' = StatementError("repeated equal sign")
            /\ expecting_space' = FALSE
            /\ UNCHANGED <<pos, quote, quoting, flags, bp, args, kwargs>>
       ELSE IF ch = BSL
       THEN /\ pout' = StatementError("backslash not allowed outside quotation marks")
            /\ expecting_space' = FALSE
            /\ UNCHANGED <<pos, quote, quoting, flags, bp, args, kwargs>>
       ELSE IF ~flags.inside
       THEN /\ flags' = [flags EXCEPT !.inside = TRUE]
            /\ bp' = pos
            /\ quoting' = (ch \in QUOTES)
            /\ quote' = IF ch \in QUOTES THEN ch ELSE quote
            /\ pos' = pos + 1 /\ expecting_space' = FALSE
            /\ UNCHANGED <<args, kwargs, pout>>
       ELSE IF ch \in QUOTES
       THEN /\ pout' = StatementError("unexpected quotation mark")
            /\ expecting_space' = FALSE
            /\ UNCHANGED <<pos, quote, quoting, flags, bp, args, kwargs>>
       ELSE /\ pos' = pos + 1 /\ expecting_space' = FALSE
            /\ UNCHANGED <<quote, quoting, flags, bp, args, kwargs, pout>>
    /\ UNCHANGED sargs
    /\ UNCHANGED Others

\* lines 58-61, 77-87: a character between quotation marks
Quoted ==
    /\ Running /\ pos < Len(sargs) /\ quoting
    /\ IF expecting_space /\ ch # " "
       THEN /\ pout' = StatementError("expecting space")
            /\ UNCHANGED <<pos, quoting, expecting_space, flags, args, kwargs>>
       ELSE IF flags.backslash
       THEN /\ flags' = [flags EXCEPT !.backslash = FALSE]
            /\ pos' = pos + 1 /\ expecting_space' = FALSE
            /\ UNCHANGED <<quoting, args, kwargs, pout>>
       ELSE IF ch = quote
       THEN LET r == new_arg(args, kwargs)
            IN  /\ args' = r.args /\ kwargs' = r.kwargs
                /\ IF r.ok
                   THEN /\ flags' = [r.flags EXCEPT !.inside = FALSE]
                        /\ quoting' = FALSE /\ expecting_space' = TRUE
                        /\ pos' = pos + 1 /\ pout' = pout
                   ELSE /\ flags' = r.flags /\ pout' = PopEmpty
                        /\ expecting_space' = FALSE
                        /\ UNCHANGED <<pos, quoting>>
       ELSE /\ flags' = IF ch = BSL THEN [flags EXCEPT !.backslash = TRUE] ELSE flags
            /\ pos' = pos + 1 /\ expecting_space' = FALSE
            /\ UNCHANGED <<quoting, args, kwargs, pout>>
    /\ UNCHANGED <<sargs, quote, bp>>
    /\ UNCHANGED Others

InitParse ==
    /\ sargs \in Statements
    /\ pos = 0 /\ quote = "" /\ quoting = FALSE /\ expecting_space = FALSE
    /\ flags = [inside |-> FALSE, kwarg |-> FALSE, backslash |-> FALSE]
    /\ bp = -1 /\ args = <<>> /\ kwargs = <<>> /\ pout = NoCall
    /\ PlotIdle /\ RenameIdle /\ LoggerIdle /\ MenuIdle /\ ConfigIdle
    /\ SqliteIdle /\ CallerIdle /\ DataIdle

NextParse == AtEnd \/ Unquoted \/ Quoted

SpecParse == InitParse /\ [][NextParse]_vars

\* C29: whatever the statement, an exception that leaves str2args is a
\* StatementError carrying the statement and the position looked at, and
\* when str2args returns no equal sign is left without its value: the key
\* before every '=' has been moved from args to kwargs.
C29_Original ==
    /\ pout.kind = "raise" =>
          /\ pout.exc = "StatementError"
          /\ pout.statement = sargs /\ pout.position = pos
    /\ pout.kind = "return" => ~flags.kwarg

----------------------------------------------------------------------------
(* datafile.py: DataFile.load, init_default, save_as *)

Missing == -1
FileNames == {"a", "b"}

\* os.path.join(module_path, "data", "default", name)
DefaultPath(name) == IF name = "a" THEN "data/default/a" ELSE "data/default/b"
DefaultNames == {"a"}
Paths == FileNames \cup {DefaultPath(n) : n \in DefaultNames}

Failed(exc) == [exc |-> exc, loadok |-> FALSE, filename |-> filename,
                loaded |-> __flag_loaded, disk |-> disk]

\* the load guard never holds
AlreadyLoaded_Never == FALSE

\* line 80: the condition of "assert not self.__flag_loaded"
AlreadyLoaded == __flag_loaded

\* load(f); magic, body: whether _test_magic and _do_load return
load(f, magic, body) ==
    IF AlreadyLoaded THEN Failed("AssertionError")
    ELSE LET fn == IF f = None THEN default_filename ELSE f
         IN  IF fn = None THEN Failed("AssertionError")
             ELSE IF disk[fn] = Missing THEN Failed("FileNotFoundError")
             ELSE IF disk[fn] = 0 THEN Failed("RuntimeError")
             ELSE IF ~magic THEN Failed("_test_magic")
             ELSE IF ~body THEN Failed("_do_load")
             ELSE [exc |-> "", loadok |-> TRUE, filename |-> fn,
                   loaded |-> TRUE, disk |-> disk]

\* _get_default_data_path(name, class_=...): the path, or the exception
_get_default_data_path(name) ==
    IF Len(pkgname) < 2 \/ pkgname[2] # "filetypes" THEN [exc |-> "ValueError"]
    ELSE IF disk[DefaultPath(name)] = Missing THEN [exc |-> "RuntimeError"]
    ELSE [exc |-> "", p |-> DefaultPath(name)]

init_default(magic, body) ==
    IF default_filename = None THEN Failed("RuntimeError")
    ELSE LET fullpath == _get_default_data_path(default_filename)
         IN  IF fullpath.exc # "" THEN Failed(fullpath.exc)
             ELSE LET r == load(fullpath.p, magic, body)
                  IN  IF r.exc # "" THEN r
                      ELSE [r EXCEPT !.filename = None]

\* save_as(f); body: whether _do_save_as returns, having written the file
save_as(f, body) ==
    LET f1 == IF f = None THEN filename ELSE f
        fn == IF f1 = None THEN default_filename ELSE f1
    IN  IF fn = None THEN Failed("RuntimeError")
        ELSE IF ~body THEN Failed("_do_save_as")
        ELSE [exc |-> "", loadok |-> FALSE, filename |-> fn,
              loaded |-> __flag_loaded, disk |-> [disk EXCEPT ![fn] = 1]]

\* one call on the object: r is what it does
Do(op, r) ==
    /\ Len(hist) < MaxOps
    /\ filename' = r.filename /\ __flag_loaded' = r.loaded /\ disk' = r.disk
    /\ hist' = Append(hist, [op |-> op, exc |-> r.exc, loadok |-> r.loadok,
                             filename |-> filename, loaded |-> __flag_loaded])
    /\ UNCHANGED <<default_filename, pkgname>>
    /\ UNCHANGED <<plotVars, renameVars, loggerVars, menuVars, configVars,
                   sqliteVars, callerVars, parseVars>>

Load ==
    \E f \in FileNames \cup {None}, magic, body \in BOOLEAN :
        Do("load", load(f, magic, body))

InitDefault == \E magic, body \in BOOLEAN : Do("init_default", init_default(magic, body))

SaveAs == \E f \in FileNames \cup {None}, body \in BOOLEAN : Do("save_as", save_as(f, body))

InitData ==
    /\ filename = None /\ __flag_loaded = FALSE /\ hist = <<>>
    /\ default_filename \in DefaultNames \cup {None}
    /\ pkgname \in {<<"pkg", "filetypes", "filea">>, <<"filea">>}
    /\ disk \in [Paths -> {Missing, 0, 1}]
    /\ PlotIdle /\ RenameIdle /\ LoggerIdle /\ MenuIdle /\ ConfigIdle
    /\ SqliteIdle /\ CallerIdle /\ ParseIdle

NextData == Load \/ InitDefault \/ SaveAs

SpecData == InitData /\ [][NextData]_vars

\* filename and the loaded flag after call k
AfterCall(k) ==
    IF k < Len(hist)
    THEN [filename |-> hist[k + 1].filename, loaded |-> hist[k + 1].loaded]
    ELSE [filename |-> filename, loaded |-> __flag_loaded]
BeforeCall(k) == [filename |-> hist[k].filename, loaded |-> hist[k].loaded]
Loads(k) == hist[k].op \in {"load", "init_default"}

\* C30: among the calls made on one DataFile at most one load completes; a
\* load (also the one init_default makes) on an object already loaded raises
\* and leaves filename as it was; and a load that raises leaves filename and
\* the loaded flag as they were, so a load that failed does not prevent a
\* later one.
C30_LoadedOnce ==
    /\ Cardinality({k \in 1..Len(hist) : hist[k].loadok}) <= 1
    /\ \A k \in 1..Len(hist) :
         Loads(k) /\ hist[k].loaded =>
            hist[k].exc # "" /\ AfterCall(k).filename = hist[k].filename
    /\ \A k \in 1..Len(hist) :
         Loads(k) /\ hist[k].exc # "" => AfterCall(k) = BeforeCall(k)

\* a load of an empty file failed, a later load succeeded, and a third load
\* was refused
C30_Witness ==
    \E j, k, l \in 1..Len(hist) :
        /\ j < k /\ k < l
        /\ hist[j].op = "load" /\ hist[j].exc = "RuntimeError"
        /\ hist[k].op = "load" /\ hist[k].loadok
        /\ hist[l].op = "load" /\ hist[l].exc = "AssertionError"
        /\ filename = AfterCall(k).filename /\ __flag_loaded

====
